---- MODULE Spec2Model ----
(***************************************************************************)
(* Dealership back-office pipeline: the Vapi call-event router             *)
(* (agents/voice_agent/handler.py), the relational store it writes to, the *)
(* Celery job queue it feeds and the jobs of workflow/tasks.py.            *)
(*                                                                         *)
(* JSON values are modelled as records with a kind tag k:                  *)
(*   "absent" (key missing), "null" (JSON null / not a dict), "obj"/"str". *)
(* A text is a sequence of phrases; a keyword occurs in a text when it is  *)
(* a fragment of one of the lower-cased phrases.                           *)
(***************************************************************************)
EXTENDS Integers, Sequences, FiniteSets, TLC

VARIABLES
    redis_client,   \* handler.py:19-25  TRUE iff the module-level client was built
    redisUp,        \* whether the marker store answers commands right now
    markers,        \* marker key -> remaining TTL in seconds (0 = key absent)
    customers,      \* rows of table "customers", in customer_id order
    interactions,   \* rows of table "interactions", in interaction_id order
    jobs,           \* messages waiting in the Celery broker
    last,           \* the step just taken: operation, input, response
    calls,          \* history: per call id, the lifecycle events processed so far
    running,        \* score_lead jobs in a worker, between their SELECT and COMMIT
    files,          \* paths of the PDF files in generated_documents/
    documents       \* file_path of the rows of table "documents"

vars == <<redis_client, redisUp, markers, customers, interactions, jobs, last, calls,
          running, files, documents>>

----------------------------------------------------------------------------
(* Bounds of the model                                                     *)

MaxCustomers == 2
MaxInteractions == 1
MaxJobs == 2
TicksPerTTL == 2
MaxWorkers == 2
MaxDays == 4
MaxPhrases == 2
MaxLeads == 3

----------------------------------------------------------------------------
(* Program constants                                                       *)

MARKER_TTL == 3600
SCORE_MAX_RETRIES == 3
ANALYZE_MAX_RETRIES == 2

NULL == "NULL"                      \* SQL NULL / Python None in a string column
NoId == ""                          \* falsy call id (missing, null or empty)
NoNumber == ""                      \* falsy phone number

CallIds == {"c1", "c2"}
Phones == {"+111", "+222"}
Emails == {"a@x.io"}
OptEmails == Emails \cup {NULL}     \* email: Optional[EmailStr] = None

TickLen == MARKER_TTL \div TicksPerTTL

----------------------------------------------------------------------------
(* Texts and the keyword tables                                            *)

TestDriveText == <<"I want a", "Test Drive">>
HelloText == <<"hello">>
PricingText == <<"pricing">>
Transcripts == {TestDriveText, HelloText}
BothText == <<"Test Drive", "pricing">>
GreatPricingText == <<"great", "pricing">>
UrgentText == <<"urgent">>
JustLookingText == <<"just looking">>
EmptyText == << >>
GreatText == <<"great">>

\* a content column that holds NULL, among the texts; no client sends it
NullContent == <<NULL>>

\* a text is the sequence of its phrases, joined by single blanks.  Long50
\* and Long60 stand for passages of 50 and 60 plain words, Blank for
\* white space only.  No keyword of a table is formed across the boundary of
\* two phrases of the vocabulary.
Long50 == "(50 plain words)"
Long60 == "(60 plain words)"
Blank == " "
Phrases == {"urgent", "Ferrari", "pricing", "just looking", "maybe later", "great",
            "love", "expensive", "schedule test drive", "service", "trade-in",
            "other options", "hello", "why??", "how much?", Long50, Long60, Blank}

\* str.lower() on the phrases of the vocabulary
Lower(p) ==
    CASE p = "Test Drive" -> "test drive"
      [] p = "I want a" -> "i want a"
      [] p = "Ferrari" -> "ferrari"
      [] p = "Information" -> "information"
      [] OTHER -> p

\* the table keywords that are substrings of a lower-cased phrase
Fragments(p) ==
    CASE p = "schedule test drive" -> {"schedule test drive", "test drive", "schedule"}
      [] p = "other options" -> {"other options", "options"}
      [] p = "how much?" -> {"how much"}
      [] OTHER -> {p}

\* len(p.split()): the words of a phrase
Words(p) ==
    CASE p \in {"I want a", "schedule test drive"} -> 3
      [] p \in {"Test Drive", "just looking", "maybe later", "other options",
                "how much?", "called back"} -> 2
      [] p = Long50 -> 50
      [] p = Long60 -> 60
      [] p = Blank -> 0
      [] OTHER -> 1

\* p.count('?')
QuestionMarks(p) ==
    CASE p = "how much?" -> 1
      [] p = "why??" -> 2
      [] OTHER -> 0

\* len(text.split())
RECURSIVE WordCount(_)
WordCount(text) ==
    IF text = << >> THEN 0 ELSE Words(Head(text)) + WordCount(Tail(text))

\* text.count('?')
RECURSIVE QuestionCount(_)
QuestionCount(text) ==
    IF text = << >> THEN 0 ELSE QuestionMarks(Head(text)) + QuestionCount(Tail(text))

\* `keyword in text_lower`
Occurs(kw, text) == \E i \in DOMAIN text : kw \in Fragments(Lower(text[i]))

HOT_KEYWORDS == {"buy now", "ready to purchase", "schedule test drive", "phantom",
                 "cullinan", "bentley", "ferrari", "urgent", "book appointment",
                 "quote needed"}
WARM_KEYWORDS == {"interested", "more information", "pricing", "financing", "options",
                  "compare models", "availability"}
COLD_KEYWORDS == {"just looking", "researching", "future", "maybe later", "not serious"}

\* variant: the warm list is checked before the hot list
score_lead_from_text_WarmFirst(text) ==
    IF text = EmptyText THEN "Cold Lead"
    ELSE IF \E kw \in WARM_KEYWORDS : Occurs(kw, text) THEN "Warm Lead"
    ELSE IF \E kw \in HOT_KEYWORDS : Occurs(kw, text) THEN "Hot Lead"
    ELSE IF \E kw \in COLD_KEYWORDS : Occurs(kw, text) THEN "Cold Lead"
    ELSE "Warm Lead"

score_lead_from_text(text) ==
    IF text = EmptyText THEN "Cold Lead"
    ELSE IF \E kw \in HOT_KEYWORDS : Occurs(kw, text) THEN "Hot Lead"
    ELSE IF \E kw \in WARM_KEYWORDS : Occurs(kw, text) THEN "Warm Lead"
    ELSE IF \E kw \in COLD_KEYWORDS : Occurs(kw, text) THEN "Cold Lead"
    ELSE "Warm Lead"

POSITIVE_KEYWORDS == {"interested", "love", "perfect", "excellent", "amazing", "great",
                      "wonderful", "excited", "looking forward", "impressive",
                      "beautiful", "fantastic"}
NEGATIVE_KEYWORDS == {"expensive", "too much", "not sure", "concerned", "worried",
                      "hesitant", "maybe later", "thinking about it", "budget", "afford"}

\* variant: a tie with at least one positive keyword counts as Positive
analyze_conversation_sentiment_TiePositive(text) ==
    LET positive_count == Cardinality({kw \in POSITIVE_KEYWORDS : Occurs(kw, text)})
        negative_count == Cardinality({kw \in NEGATIVE_KEYWORDS : Occurs(kw, text)})
    IN  IF text = EmptyText THEN "Neutral"
        ELSE IF positive_count >= negative_count /\ positive_count > 0 THEN "Positive"
        ELSE IF negative_count > positive_count /\ negative_count > 0 THEN "Negative"
        ELSE "Neutral"

analyze_conversation_sentiment(text) ==
    LET positive_count == Cardinality({kw \in POSITIVE_KEYWORDS : Occurs(kw, text)})
        negative_count == Cardinality({kw \in NEGATIVE_KEYWORDS : Occurs(kw, text)})
    IN  IF text = EmptyText THEN "Neutral"
        ELSE IF positive_count > negative_count /\ positive_count > 0 THEN "Positive"
        ELSE IF negative_count > positive_count /\ negative_count > 0 THEN "Negative"
        ELSE "Neutral"

\* INTENT_KEYWORDS in declaration order
INTENT_ORDER == <<"test_drive", "pricing", "appointment", "purchase_ready",
                  "comparison", "features", "trade_in", "service">>

INTENT_KEYWORDS(intent) ==
    CASE intent = "test_drive" -> {"test drive", "drive the car", "try it out", "test it",
                                   "take it for a spin", "experience the vehicle",
                                   "feel the car"}
      [] intent = "pricing" -> {"price", "cost", "how much", "payment", "financing",
                                "afford", "monthly payment", "down payment",
                                "total cost", "pricing"}
      [] intent = "appointment" -> {"schedule", "appointment", "visit", "come by",
                                    "showroom", "meet", "when can I", "availability"}
      [] intent = "purchase_ready" -> {"buy now", "ready to purchase", "want to buy",
                                       "make a deal", "sign the papers", "close the deal",
                                       "ready to proceed"}
      [] intent = "comparison" -> {"compare", "difference between", "versus", "vs",
                                   "which is better", "alternative", "other options"}
      [] intent = "features" -> {"features", "specifications", "specs",
                                 "what does it have", "include", "comes with",
                                 "standard", "options"}
      [] intent = "trade_in" -> {"trade in", "trade-in", "current car", "sell my car",
                                 "exchange", "part exchange"}
      [] intent = "service" -> {"maintenance", "service", "warranty", "repair",
                                "servicing", "after sales"}

\* variant: the inner loop has no `break`, an intent is appended once for
\* every keyword of its list that occurs
RECURSIVE EveryMatch(_, _)
EveryMatch(order, text) ==
    IF order = << >> THEN << >>
    ELSE LET hits == Cardinality({kw \in INTENT_KEYWORDS(Head(order)) : Occurs(kw, text)})
         IN  [k \in 1..hits |-> Head(order)] \o EveryMatch(Tail(order), text)

extract_key_intents_NoBreak(text) ==
    IF text = EmptyText THEN << >> ELSE EveryMatch(INTENT_ORDER, text)

\* the detected intents, as the list the loop over the table builds
extract_key_intents(text) ==
    IF text = EmptyText THEN << >>
    ELSE SelectSeq(INTENT_ORDER,
                   LAMBDA intent : \E kw \in INTENT_KEYWORDS(intent) : Occurs(kw, text))

Min(a, b) == IF a < b THEN a ELSE b

\* variant: the points for the intents are not capped
calculate_engagement_score_IntentsUncapped(text) ==
    LET word_count == WordCount(text)
        length == IF word_count > 100 THEN 30 ELSE IF word_count > 50 THEN 20 ELSE 10
        intents == extract_key_intents(text)
        sentiment == analyze_conversation_sentiment(text)
        bonus == IF sentiment = "Positive" THEN 20
                 ELSE IF sentiment = "Neutral" THEN 10 ELSE 0
        question_count == QuestionCount(text)
    IN  IF text = EmptyText THEN 0
        ELSE Min(length + Len(intents) * 15 + bonus + Min(question_count * 5, 10), 100)

\* analyzer.py:102-137
calculate_engagement_score(text) ==
    LET word_count == WordCount(text)
        length == IF word_count > 100 THEN 30 ELSE IF word_count > 50 THEN 20 ELSE 10
        intents == extract_key_intents(text)
        sentiment == analyze_conversation_sentiment(text)
        bonus == IF sentiment = "Positive" THEN 20
                 ELSE IF sentiment = "Neutral" THEN 10 ELSE 0
        question_count == QuestionCount(text)
    IN  IF text = EmptyText THEN 0
        ELSE Min(length + Min(Len(intents) * 15, 40) + bonus
                    + Min(question_count * 5, 10), 100)

\* analyzer.py:216-221: type_multiplier.get(customer_type, 1.0), in tenths
TypeMultiplier(customer_type) ==
    CASE customer_type = "Hot Lead" -> 15
      [] customer_type = "Warm Lead" -> 12
      [] customer_type = "Prospect" -> 10
      [] customer_type = "Cold Lead" -> 8
      [] OTHER -> 10

\* analyzer.py:209-231: the customer with its two scores.  A customer_type
\* that is missing is NULL here, .get() gives 'Prospect' for it; a
\* last_conversation that is missing is the empty text, as .get() gives ''.
\* The scores are multiples of 5, so engagement * multiplier is exact in
\* floating point; priority_score is kept in tenths.
Scored(customer) ==
    LET text == customer.last_conversation
        customer_type == IF customer.customer_type = NULL THEN "Prospect"
                         ELSE customer.customer_type
        engagement == calculate_engagement_score(text)
    IN  [customer_id |-> customer.customer_id,
         customer_type |-> customer.customer_type,
         last_conversation |-> customer.last_conversation,
         priority_score |-> engagement * TypeMultiplier(customer_type),
         engagement_score |-> engagement]

\* variant: a customer is placed before the customers of equal score
SortedDescending_Unstable(list) ==
    LET Place(sorted, x) ==
            LET before == {i \in DOMAIN sorted :
                              \A j \in 1..i : sorted[j].priority_score > x.priority_score}
                k == Cardinality(before)
            IN  SubSeq(sorted, 1, k) \o <<x>> \o SubSeq(sorted, k + 1, Len(sorted))
        step[n \in 0..Len(list)] ==
            IF n = 0 THEN << >> ELSE Place(step[n - 1], list[n])
    IN  step[Len(list)]

\* analyzer.py:234: sorted(..., key=priority_score, reverse=True).  The sort
\* is stable also with reverse=True: a customer goes behind every customer
\* of greater or equal score that came before it
SortedDescending(list) ==
    LET Place(sorted, x) ==
            LET before == {i \in DOMAIN sorted :
                              \A j \in 1..i : sorted[j].priority_score >= x.priority_score}
                k == Cardinality(before)
            IN  SubSeq(sorted, 1, k) \o <<x>> \o SubSeq(sorted, k + 1, Len(sorted))
        step[n \in 0..Len(list)] ==
            IF n = 0 THEN << >> ELSE Place(step[n - 1], list[n])
    IN  step[Len(list)]

\* analyzer.py:201-234
prioritize_leads(customers_data) ==
    SortedDescending([i \in DOMAIN customers_data |-> Scored(customers_data[i])])

InList(x, list) == \E i \in DOMAIN list : list[i] = x

determine_outcome_from_intents(intents) ==
    IF InList("test_drive", intents) THEN "Test drive interest expressed"
    ELSE IF InList("pricing", intents) THEN "Pricing inquiry"
    ELSE IF InList("appointment", intents) THEN "Appointment requested"
    ELSE IF InList("purchase_ready", intents) THEN "Ready to purchase"
    ELSE "General inquiry"

RECURSIVE FirstSentence(_)
\* content.split('.')[0]: the phrases before the first "."
FirstSentence(content) ==
    IF content = << >> \/ Head(content) = "." THEN << >>
    ELSE <<Head(content)>> \o FirstSentence(Tail(content))

\* the texts of the model are far shorter than max_length = 200 characters,
\* so the truncation branch is never taken
generate_interaction_summary(content) ==
    IF content = EmptyText THEN <<"No content available">>
    ELSE FirstSentence(content) \o <<".">>

----------------------------------------------------------------------------
(* The webhook payload                                                     *)

Str(t) == [k |-> "str", s |-> t]
AbsentT == [k |-> "absent", s |-> EmptyText]
NullT == [k |-> "null", s |-> EmptyText]

\* values of a "transcript" key: missing, null, "" or a text
TValues == {AbsentT, NullT, Str(EmptyText)} \cup {Str(t) : t \in Transcripts}

\* values of "artifact" / "analysis": missing, not a dict, or a dict
Holder(tv) == [k |-> "obj", transcript |-> tv]
AbsentHolder == [k |-> "absent", transcript |-> AbsentT]
NullHolder == [k |-> "null", transcript |-> AbsentT]
Holders == {AbsentHolder, NullHolder} \cup {Holder(tv) : tv \in TValues}

\* values of "customer": missing, null, or a dict with a number
Party(n) == [k |-> "obj", number |-> n]
AbsentParty == [k |-> "absent", number |-> NoNumber]
NullParty == [k |-> "null", number |-> NoNumber]
Parties == {AbsentParty, NullParty} \cup {Party(n) : n \in Phones \cup {NoNumber}}

\* values of "call": missing, null, or a dict with an id and a customer
Call(i, c) == [k |-> "obj", id |-> i, customer |-> c]
AbsentCall == [k |-> "absent", id |-> NoId, customer |-> AbsentParty]
NullCall == [k |-> "null", id |-> NoId, customer |-> AbsentParty]

Msg(ty, ca, i, cu, ar, tr, an) ==
    [type |-> ty, call |-> ca, id |-> i, customer |-> cu,
     artifact |-> ar, transcript |-> tr, analysis |-> an]

\* a complete, well-formed call-end message
BaseMsg == Msg("call-end", Call("c1", Party("+111")), NoId, Party("+111"),
               AbsentHolder, Str(TestDriveText), AbsentHolder)

\* the request body: empty, not JSON, JSON that is not an object, or an object
\* whose "message" is missing / falsy / a non-dict truthy value / a dict
Body(k, mk, m) == [k |-> k, mk |-> mk, message |-> m]
EnvelopeBodies ==
    {Body("empty", "absent", BaseMsg), Body("badjson", "absent", BaseMsg),
     Body("nonobject", "absent", BaseMsg), Body("object", "absent", BaseMsg),
     Body("object", "falsy", BaseMsg), Body("object", "nondict", BaseMsg)}

ObjBodies(msgs) == {Body("object", "obj", m) : m \in msgs}

\* the pipeline view: one call, one known and one unknown number
CoreMsgs ==
    {Msg("call-start", Call("c1", Party("+111")), NoId, AbsentParty,
         AbsentHolder, AbsentT, AbsentHolder),
     BaseMsg,
     Msg("end-of-call-report", Call("c1", Party("+222")), NoId, Party("+222"),
         AbsentHolder, Str(TestDriveText), AbsentHolder),
     Msg("status-update", Call("c1", Party("+111")), NoId, Party("+111"),
         AbsentHolder, Str(TestDriveText), AbsentHolder)}

\* call-end messages that vary the three transcript locations
TranscriptMsgs ==
    {Msg("call-end", Call("c1", AbsentParty), NoId, Party("+111"), ar, tr, an) :
        ar \in Holders, tr \in TValues, an \in Holders}

\* messages whose inner fields are missing, null or well formed
ShapeMsgs ==
    {Msg("call-start", ca, NoId, AbsentParty, AbsentHolder, AbsentT, AbsentHolder) :
        ca \in {AbsentCall, NullCall, Call(NoId, AbsentParty), Call("c1", AbsentParty),
                Call("c1", NullParty)}}
    \cup
    {Msg(ty, ca, NoId, cu, AbsentHolder, tr, AbsentHolder) :
        ty \in {"call-end", "end-of-call-report"},
        ca \in {AbsentCall, NullCall, Call("c1", AbsentParty)},
        cu \in {AbsentParty, NullParty, Party("+111")},
        tr \in {AbsentT, NullT, Str(TestDriveText)}}
    \cup
    {Msg(ty, ca, NoId, cu, AbsentHolder, Str(TestDriveText), AbsentHolder) :
        ty \in {"status-update", "unknown"},
        ca \in {NullCall, Call("c1", AbsentParty)},
        cu \in {NullParty, Party("+111")}}

\* a mid-call event of the voice platform that carries what the caller said
AssistantTurnMsg ==
    Msg("assistant-request", Call("c1", AbsentParty), NoId, Party("+111"),
        AbsentHolder, Str(HelloText), AbsentHolder)

\* messages that vary the call id and where it is found
MarkerMsgs ==
    {Msg("call-start", ca, NoId, AbsentParty, AbsentHolder, AbsentT, AbsentHolder) :
        ca \in {AbsentCall, Call(NoId, AbsentParty), Call("c1", AbsentParty),
                Call("c2", AbsentParty)}}
    \cup
    {Msg("call-end", ci[1], ci[2], cu, AbsentHolder, tr, AbsentHolder) :
        ci \in {<<AbsentCall, NoId>>, <<AbsentCall, "c1">>,
                <<Call("c1", AbsentParty), NoId>>, <<Call("c2", AbsentParty), "c1">>},
        cu \in {AbsentParty, Party("+111")},
        tr \in {AbsentT, Str(TestDriveText)}}
    \cup
    {Msg("status-update", Call("c1", AbsentParty), NoId, Party("+111"),
         AbsentHolder, Str(TestDriveText), AbsentHolder),
     AssistantTurnMsg}

\* call events that carry the caller's number at message.call.customer, at
\* message.customer, or at both
NumberMsgs ==
    {Msg(ty, Call(c, at[1]), NoId, at[2], AbsentHolder, Str(TestDriveText),
         AbsentHolder) :
        ty \in {"call-start", "call-end"}, c \in CallIds,
        at \in UNION {{<<Party(n), AbsentParty>>, <<AbsentParty, Party(n)>>,
                       <<Party(n), Party(n)>>} : n \in Phones}}

CoreBodies == ObjBodies(CoreMsgs)
ShapeBodies == EnvelopeBodies \cup ObjBodies(ShapeMsgs)
TranscriptBodies == ObjBodies(TranscriptMsgs)
MarkerBodies == ObjBodies(MarkerMsgs)

----------------------------------------------------------------------------
(* handler.py: pure parts of the handlers                                  *)

\* dict.get("transcript", ""): the default only replaces a missing key
GetTranscript(tv) == IF tv.k = "absent" THEN Str(EmptyText) ELSE tv

\* Python truthiness of a transcript value
Truthy(tv) == tv.k = "str" /\ tv.s # EmptyText

\* variant: the top level first, then analysis, then artifact
ExtractTranscript_TopFirst(m) ==
    LET t1 == GetTranscript(m.transcript)
        t2 == IF ~Truthy(t1) /\ m.analysis.k = "obj"
              THEN GetTranscript(m.analysis.transcript) ELSE t1
        t3 == IF ~Truthy(t2) /\ m.artifact.k = "obj"
              THEN GetTranscript(m.artifact.transcript) ELSE t2
    IN  t3

\* handler.py:97-113: artifact first, then the top level, then analysis
ExtractTranscript(m) ==
    LET t1 == IF m.artifact.k = "obj" THEN GetTranscript(m.artifact.transcript)
              ELSE Str(EmptyText)
        t2 == IF ~Truthy(t1) THEN GetTranscript(m.transcript) ELSE t1
        t3 == IF ~Truthy(t2) /\ m.analysis.k = "obj"
              THEN GetTranscript(m.analysis.transcript) ELSE t2
    IN  t3

\* handler.py:89-92: call.id, else the message's own id
CallEndCallId(m) == IF m.call.id # NoId THEN m.call.id ELSE m.id

\* handler.py:44-46: .get on a null "call" or "customer" raises AttributeError
CallStartRaises(m) == m.call.k = "null" \/ m.call.customer.k = "null"

\* handler.py:89-117: .get on a null "call"/"customer", len() of a null transcript
CallEndRaises(m) ==
    \/ m.call.k = "null"
    \/ m.customer.k = "null"
    \/ ExtractTranscript(m).k = "null"

\* the Redis key of a call's marker (handler.py:61 and handler.py:187)
StartKey(call_id) == <<"call_active_", call_id>>
EndKey(call_id) == <<"call_active_", call_id>>
MarkerKeys == {StartKey(c) : c \in CallIds}

----------------------------------------------------------------------------
(* The relational store                                                    *)

CustomerRow(id, fn, ph, em, ty) ==
    [customer_id |-> id, first_name |-> fn, phone_number |-> ph,
     email |-> em, customer_type |-> ty]

\* variant: the customer_type column has no default
NewCustomer_NoDefault(rows, first_name, phone_number, email) ==
    CustomerRow(Len(rows) + 1, first_name, phone_number, email, NULL)

\* Customer(**values): columns that are not given stay None, except
\* customer_type, whose column default is 'Prospect' (customer_model.py:13)
NewCustomer(rows, first_name, phone_number, email) ==
    CustomerRow(Len(rows) + 1, first_name, phone_number, email, "Prospect")

\* variant: the phone_number column has no UNIQUE constraint
CustomerInsertOk_PhoneNotUnique(rows, row) ==
    /\ row.first_name # NULL
    /\ row.phone_number # NULL
    /\ row.email # NULL => \A i \in DOMAIN rows : rows[i].email # row.email

\* the constraints of customer_model.py:8-11 checked by db.commit()
CustomerInsertOk(rows, row) ==
    /\ row.first_name # NULL
    /\ row.phone_number # NULL
    /\ \A i \in DOMAIN rows : rows[i].phone_number # row.phone_number
    /\ row.email # NULL => \A i \in DOMAIN rows : rows[i].email # row.email

\* query(Customer).filter(phone_number == n).first(): 0 when there is no row
FindByPhone(rows, n) ==
    IF \E i \in DOMAIN rows : rows[i].phone_number = n
    THEN CHOOSE i \in DOMAIN rows :
            /\ rows[i].phone_number = n
            /\ \A j \in DOMAIN rows : rows[j].phone_number = n => i <= j
    ELSE 0

\* the place of a deleted row: its customer_id is never given out again
DeletedRow == CustomerRow(0, NULL, NULL, NULL, NULL)

\* query(Customer).filter(customer_id == id).first(): 0 when there is no row
FindById(rows, id) ==
    IF id \in DOMAIN rows /\ rows[id].customer_id = id THEN id ELSE 0

\* Interaction(customer_id=..., **InteractionCreate.model_dump()): the client
\* may send summary and outcome; sentiment is not a field of the schema.
\* interaction_timestamp is set by the server to now() at the insert
\* (interaction_model.py:20); the row keeps it as age, the number of whole
\* days between interaction_timestamp and the present
InteractionRow(id, cid, ch, co, note) ==
    [interaction_id |-> id, customer_id |-> cid, channel |-> ch, content |-> co,
     summary |-> note.summary, outcome |-> note.outcome, sentiment |-> NULL,
     age |-> 0]

\* InteractionCreate.summary / .outcome: left out, or given by the client
NoNote == [summary |-> << >>, outcome |-> NULL]
ClientNote == [summary |-> <<"called back">>, outcome |-> "Quote sent"]

----------------------------------------------------------------------------
(* schemas/customer_schema.py                                              *)

\* CustomerCreate(...): the fields given explicitly, the others at their defaults
CustomerCreate(given, phone_number, email) ==
    [fields_set |-> given, phone_number |-> phone_number,
     first_name |-> "Unknown", email |-> email]

\* model_dump(exclude_unset=...): an excluded field never reaches the column
model_dump(schema, exclude_unset) ==
    LET val(f, v) == IF exclude_unset /\ f \notin schema.fields_set THEN NULL ELSE v
    IN  [phone_number |-> val("phone_number", schema.phone_number),
         first_name |-> val("first_name", schema.first_name),
         email |-> val("email", schema.email)]

----------------------------------------------------------------------------
(* The broker                                                              *)

Job(name, cid, text, iid, ftype, retries, countdown) ==
    [name |-> name, customer_id |-> cid, text |-> text, interaction_id |-> iid,
     followup_type |-> ftype, email |-> NULL, template |-> "",
     vehicle_id |-> 0, attachment_path |-> NULL,
     retries |-> retries, countdown |-> countdown]

ScoreLeadJob(cid, text, retries, countdown) ==
    Job("score_lead_task", cid, text, 0, "", retries, countdown)
AnalyzeJob(iid, retries, countdown) ==
    Job("analyze_interaction_task", 0, EmptyText, iid, "", retries, countdown)

\* variant: the follow-up type is not passed on
FollowupJob_Untyped(cid, ftype) ==
    Job("schedule_followup_task", cid, EmptyText, 0, "", 0, 0)

FollowupJob(cid, ftype) ==
    Job("schedule_followup_task", cid, EmptyText, 0, ftype, 0, 0)
EmailJob(email, template, cid, countdown) ==
    [Job("send_followup_email_task", cid, EmptyText, 0, "", 0, countdown)
        EXCEPT !.email = email, !.template = template]
InvoiceJob(cid, vid) ==
    [Job("generate_invoice_task", cid, EmptyText, 0, "", 0, 0) EXCEPT !.vehicle_id = vid]
InvoiceEmailJob(email, path) ==
    [Job("send_invoice_email_task", 0, EmptyText, 0, "", 0, 0)
        EXCEPT !.email = email, !.attachment_path = path]
NurtureJob == Job("daily_lead_nurture_task", 0, EmptyText, 0, "", 0, 0)
NoJob == Job("", 0, EmptyText, 0, "", 0, 0)

\* the queue without its i-th message
Without(q, i) == SubSeq(q, 1, i - 1) \o SubSeq(q, i + 1, Len(q))

\* 2 ** n for the retry countdown
RECURSIVE Pow2(_)
Pow2(n) == IF n = 0 THEN 1 ELSE 2 * Pow2(n - 1)

----------------------------------------------------------------------------
(* The step record                                                         *)

NoBody == Body("empty", "absent", BaseMsg)

Step(op, body, status, dbFault, brokerFault, job, result) ==
    [op |-> op, body |-> body, status |-> status, dbFault |-> dbFault,
     brokerFault |-> brokerFault, job |-> job, result |-> result,
     previous_status |-> NULL, new_status |-> NULL]

----------------------------------------------------------------------------
(* handler.py: the handlers                                                *)

\* variant: the availability of the store is tested before the call id
handle_call_start_StoreFirst(m) ==
    LET call_id == m.call.id
    IN  IF ~redis_client THEN [status |-> 200, markers |-> markers]
        ELSE IF call_id = NoId THEN [status |-> 400, markers |-> markers]
        ELSE IF ~redisUp THEN [status |-> 200, markers |-> markers]
        ELSE [status |-> 200,
              markers |-> [markers EXCEPT ![StartKey(call_id)] = MARKER_TTL]]

\* handler.py:37-66
handle_call_start(m) ==
    LET call_id == m.call.id
    IN  IF call_id = NoId THEN [status |-> 400, markers |-> markers]
        ELSE IF ~redis_client THEN [status |-> 200, markers |-> markers]
        ELSE IF ~redisUp THEN [status |-> 200, markers |-> markers]
        ELSE [status |-> 200,
              markers |-> [markers EXCEPT ![StartKey(call_id)] = MARKER_TTL]]

\* handler.py:122-165: the customer block; customer_id 0 stands for None
ResolveOrCreate(rows, number, dbFault) ==
    LET found == FindByPhone(rows, number)
        vals == model_dump(CustomerCreate({"phone_number"}, number, NULL), TRUE)
        row == NewCustomer(rows, vals.first_name, vals.phone_number, vals.email)
    IN  IF dbFault THEN [customer_id |-> 0, rows |-> rows]
        ELSE IF found # 0
             THEN [customer_id |-> rows[found].customer_id, rows |-> rows]
        ELSE IF CustomerInsertOk(rows, row)
             THEN [customer_id |-> row.customer_id, rows |-> Append(rows, row)]
        ELSE [customer_id |-> 0, rows |-> rows]

\* variant: every call_active_* key is deleted
Cleanup_AllKeys(call_id) ==
    IF redis_client /\ call_id # NoId /\ redisUp
    THEN [key \in MarkerKeys |-> 0]
    ELSE markers

\* handler.py:183-193
Cleanup(call_id) ==
    IF redis_client /\ call_id # NoId /\ redisUp
    THEN [markers EXCEPT ![EndKey(call_id)] = 0]
    ELSE markers

\* variant: the cleanup sits inside the `if customer_number:` block
handle_call_end_CleanupInside(m, dbFault, brokerFault) ==
    LET call_id == CallEndCallId(m)
        customer_number == m.customer.number
        transcript == ExtractTranscript(m).s
        res == IF customer_number # NoNumber
               THEN ResolveOrCreate(customers, customer_number, dbFault)
               ELSE [customer_id |-> 0, rows |-> customers]
        queued == IF res.customer_id # 0 /\ transcript # EmptyText /\ ~brokerFault
                  THEN Append(jobs, ScoreLeadJob(res.customer_id, transcript, 0, 0))
                  ELSE jobs
    IN  [status |-> 200, customers |-> res.rows, jobs |-> queued,
         markers |-> IF customer_number # NoNumber THEN Cleanup(call_id) ELSE markers]

\* handler.py:69-196
handle_call_end(m, dbFault, brokerFault) ==
    LET call_id == CallEndCallId(m)
        customer_number == m.customer.number
        transcript == ExtractTranscript(m).s
        res == IF customer_number # NoNumber
               THEN ResolveOrCreate(customers, customer_number, dbFault)
               ELSE [customer_id |-> 0, rows |-> customers]
        queued == IF res.customer_id # 0 /\ transcript # EmptyText /\ ~brokerFault
                  THEN Append(jobs, ScoreLeadJob(res.customer_id, transcript, 0, 0))
                  ELSE jobs
    IN  [status |-> 200, customers |-> res.rows, jobs |-> queued,
         markers |-> Cleanup(call_id)]

\* variant: every type other than call-start is routed to handle_call_end
vapi_server_webhook_ElseCallEnd(body, dbFault, brokerFault) ==
    LET same(code) == [status |-> code, customers |-> customers, jobs |-> jobs,
                       markers |-> markers]
        m == body.message
        started == handle_call_start(m)
    IN  IF body.k = "empty" THEN same(200)
        ELSE IF body.k = "badjson" THEN same(400)
        ELSE IF body.k = "nonobject" THEN same(500)
        ELSE IF body.mk \in {"absent", "falsy"} THEN same(400)
        ELSE IF body.mk = "nondict" THEN same(500)
        ELSE IF m.type = "call-start"
             THEN IF CallStartRaises(m) THEN same(500)
                  ELSE [same(started.status) EXCEPT !.markers = started.markers]
        ELSE IF CallEndRaises(m) THEN same(500)
        ELSE handle_call_end(m, dbFault, brokerFault)

\* handler.py:201-251: the response and the state the request leaves
vapi_server_webhook(body, dbFault, brokerFault) ==
    LET same(code) == [status |-> code, customers |-> customers, jobs |-> jobs,
                       markers |-> markers]
        m == body.message
        started == handle_call_start(m)
    IN  IF body.k = "empty" THEN same(200)
        ELSE IF body.k = "badjson" THEN same(400)
        ELSE IF body.k = "nonobject" THEN same(500)
        ELSE IF body.mk \in {"absent", "falsy"} THEN same(400)
        ELSE IF body.mk = "nondict" THEN same(500)
        ELSE IF m.type = "call-start"
             THEN IF CallStartRaises(m) THEN same(500)
                  ELSE [same(started.status) EXCEPT !.markers = started.markers]
        ELSE IF m.type \in {"call-end", "end-of-call-report"}
             THEN IF CallEndRaises(m) THEN same(500)
                  ELSE handle_call_end(m, dbFault, brokerFault)
        ELSE same(200)

----------------------------------------------------------------------------
(* Actions                                                                 *)

TypeOK ==
    /\ redis_client \in BOOLEAN
    /\ redisUp \in BOOLEAN
    /\ markers \in [MarkerKeys -> 0..MARKER_TTL]
    /\ Len(customers) <= MaxCustomers
    /\ Len(interactions) <= MaxInteractions + 1
    /\ \A n \in DOMAIN interactions : interactions[n].age \in 0..MaxDays
    /\ Len(jobs) <= MaxJobs + SCORE_MAX_RETRIES - 1
    /\ calls \in [CallIds -> SUBSET {"start", "end", "start<end"}]
    /\ Len(running) <= MaxWorkers
    /\ documents \subseteq files

Init ==
    /\ redis_client \in BOOLEAN
    /\ redisUp = redis_client
    /\ markers = [key \in MarkerKeys |-> 0]
    /\ customers = << >>
    /\ interactions = << >>
    /\ jobs = << >>
    /\ last = Step("init", NoBody, 0, FALSE, FALSE, NoJob, "")
    /\ calls = [id \in CallIds |-> {}]
    /\ running = << >>
    /\ files = {}
    /\ documents = {}

IsMessage(body) == body.k = "object" /\ body.mk = "obj"

\* the request reaches handle_call_end and is handled to the end
ReachesCallEnd(body) ==
    /\ IsMessage(body)
    /\ body.message.type \in {"call-end", "end-of-call-report"}
    /\ ~CallEndRaises(body.message)

\* the request makes a database call / a broker call that can fail
UsesDb(body) == ReachesCallEnd(body) /\ body.message.customer.number # NoNumber
UsesBroker(body) == UsesDb(body) /\ ExtractTranscript(body.message).s # EmptyText

\* the request reaches handle_call_start and is handled to the end
ReachesCallStart(body) ==
    /\ IsMessage(body)
    /\ body.message.type = "call-start"
    /\ ~CallStartRaises(body.message)

\* the history after the request: "start<end" once a call-end follows a call-start
Recorded(body) ==
    IF ReachesCallStart(body) /\ body.message.call.id # NoId
    THEN [calls EXCEPT ![body.message.call.id] = @ \cup {"start"}]
    ELSE IF ReachesCallEnd(body) /\ CallEndCallId(body.message) # NoId
    THEN [calls EXCEPT ![CallEndCallId(body.message)] =
             @ \cup {"end"} \cup (IF "start" \in @ THEN {"start<end"} ELSE {})]
    ELSE calls

\* POST /webhook
Webhook(bodies, faults) ==
    \E body \in bodies :
      \E dbFault \in IF UsesDb(body) THEN faults ELSE {FALSE} :
        \E brokerFault \in IF UsesBroker(body) THEN faults ELSE {FALSE} :
          LET out == vapi_server_webhook(body, dbFault, brokerFault)
          IN  /\ Len(out.jobs) <= MaxJobs
              /\ Len(out.customers) <= MaxCustomers
              /\ markers' = out.markers
              /\ customers' = out.customers
              /\ jobs' = out.jobs
              /\ last' = Step("webhook", body, out.status, dbFault, brokerFault, NoJob, "")
              /\ calls' = Recorded(body)
              /\ UNCHANGED <<redis_client, redisUp, interactions, running, files, documents>>

\* the marker store goes down or comes back
RedisFlip ==
    /\ redis_client
    /\ redisUp' = ~redisUp
    /\ last' = Step("redis", NoBody, 0, FALSE, FALSE, NoJob, "")
    /\ UNCHANGED <<redis_client, markers, customers, interactions, jobs, calls, running, files, documents>>

\* variant: the keys are written without `ex`, time does not run them down
Tick_NoExpiry ==
    /\ \E key \in MarkerKeys : markers[key] > 0
    /\ markers' = markers
    /\ last' = Step("tick", NoBody, 0, FALSE, FALSE, NoJob, "")
    /\ UNCHANGED <<redis_client, redisUp, customers, interactions, jobs, calls, running, files, documents>>

\* TickLen seconds pass: every TTL runs down, a marker at 0 is gone
Tick ==
    /\ \E key \in MarkerKeys : markers[key] > 0
    /\ markers' = [key \in MarkerKeys |->
                      IF markers[key] > TickLen THEN markers[key] - TickLen ELSE 0]
    /\ last' = Step("tick", NoBody, 0, FALSE, FALSE, NoJob, "")
    /\ UNCHANGED <<redis_client, redisUp, customers, interactions, jobs, calls, running, files, documents>>

\* call-end events of two calls: of a number the API also registers, with
\* and without a transcript; of a number only calls bring; without a number
CallEndMsgs ==
    {Msg("call-end", Call(e[1], Party(e[2])), NoId, Party(e[2]), AbsentHolder,
         Str(e[3]), AbsentHolder) :
        e \in {<<"c1", "+111", TestDriveText>>, <<"c2", "+111", EmptyText>>,
               <<"c1", "+222", TestDriveText>>, <<"c2", "+222", HelloText>>,
               <<"c1", NoNumber, TestDriveText>>}}

\* handle_call_end as the steps other requests can come between.
\* handler.py:86-133 and 160-165: the message is read, the session opened
\* and the customer looked up; a request that found the customer, has no
\* number or failed in the lookup has closed its session (if it had one)
CallEndLookup(bodies, faults) ==
    \E body \in bodies :
      \E dbFault \in IF UsesDb(body) THEN faults ELSE {FALSE} :
        LET number == body.message.customer.number
            found == FindByPhone(customers, number)
            request ==
                [op |-> "call_end", body |-> body, dbFault |-> dbFault,
                 brokerFault |-> FALSE,
                 customer_id |-> IF number = NoNumber \/ dbFault \/ found = 0 THEN 0
                                 ELSE customers[found].customer_id,
                 session |-> IF number = NoNumber THEN "none"
                             ELSE IF dbFault \/ found # 0 THEN "closed"
                             ELSE "open",
                 pc |-> IF number = NoNumber \/ dbFault \/ found # 0 THEN "finish"
                        ELSE "commit"]
        IN  /\ ReachesCallEnd(body)
            /\ Len(running) < MaxWorkers
            /\ running' = Append(running, request)
            /\ last' = Step("call_end_lookup", body, 0, dbFault, FALSE, NoJob, "")
            /\ UNCHANGED <<redis_client, redisUp, markers, customers, interactions,
                           jobs, calls, files, documents>>

\* handler.py:134-165: the new customer is added and committed, or the
\* commit fails and is rolled back; then the session is closed
CallEndCommit(k) ==
    /\ k \in DOMAIN running
    /\ running[k].op = "call_end"
    /\ running[k].pc = "commit"
    /\ LET number == running[k].body.message.customer.number
           vals == model_dump(CustomerCreate({"phone_number"}, number, NULL), TRUE)
           row == NewCustomer(customers, vals.first_name, vals.phone_number, vals.email)
           ok == CustomerInsertOk(customers, row)
       IN  /\ ok => Len(customers) < MaxCustomers
           /\ customers' = IF ok THEN Append(customers, row) ELSE customers
           /\ running' = [running EXCEPT ![k].customer_id =
                                             IF ok THEN row.customer_id ELSE 0,
                                         ![k].session = "closed",
                                         ![k].pc = "finish"]
           /\ last' = Step("call_end_commit", running[k].body, 0, FALSE, FALSE,
                           NoJob, "")
    /\ UNCHANGED <<redis_client, redisUp, markers, interactions, jobs, calls, files,
                   documents>>

\* variant: the scoring is queued for every resolved customer, with or
\* without a transcript
CallEndFinish_AnyTranscript(k, faults) ==
    /\ k \in DOMAIN running
    /\ running[k].op = "call_end"
    /\ running[k].pc = "finish"
    /\ LET body == running[k].body
           customer_id_for_task == running[k].customer_id
           transcript == ExtractTranscript(body.message).s
           publish == customer_id_for_task # 0
       IN  \E brokerFault \in IF publish THEN faults ELSE {FALSE} :
               /\ Len(jobs) < MaxJobs
               /\ jobs' = IF publish /\ ~brokerFault
                          THEN Append(jobs, ScoreLeadJob(customer_id_for_task,
                                                         transcript, 0, 0))
                          ELSE jobs
               /\ markers' = Cleanup(CallEndCallId(body.message))
               /\ running' = [running EXCEPT ![k].pc = "done",
                                             ![k].brokerFault = brokerFault]
               /\ calls' = Recorded(body)
               /\ last' = Step("webhook", body, 200, running[k].dbFault, brokerFault,
                               NoJob, "")
    /\ UNCHANGED <<redis_client, redisUp, customers, interactions, files, documents>>

\* handler.py:167-196: with the session closed, the scoring is published if
\* there is a customer id and a transcript (a failed publish is logged),
\* the marker deleted, and 200 returned
CallEndFinish(k, faults) ==
    /\ k \in DOMAIN running
    /\ running[k].op = "call_end"
    /\ running[k].pc = "finish"
    /\ LET body == running[k].body
           customer_id_for_task == running[k].customer_id
           transcript == ExtractTranscript(body.message).s
           publish == customer_id_for_task # 0 /\ transcript # EmptyText
       IN  \E brokerFault \in IF publish THEN faults ELSE {FALSE} :
               /\ Len(jobs) < MaxJobs
               /\ jobs' = IF publish /\ ~brokerFault
                          THEN Append(jobs, ScoreLeadJob(customer_id_for_task,
                                                         transcript, 0, 0))
                          ELSE jobs
               /\ markers' = Cleanup(CallEndCallId(body.message))
               /\ running' = [running EXCEPT ![k].pc = "done",
                                             ![k].brokerFault = brokerFault]
               /\ calls' = Recorded(body)
               /\ last' = Step("webhook", body, 200, running[k].dbFault, brokerFault,
                               NoJob, "")
    /\ UNCHANGED <<redis_client, redisUp, customers, interactions, files, documents>>

\* POST /api/v1/customers/ (customers.py:19-43)
create_customer(phones, emails) ==
    \E phone \in phones, email \in emails :
        LET vals == model_dump(CustomerCreate({"phone_number", "email"}, phone, email),
                               FALSE)
            row == NewCustomer(customers, vals.first_name, vals.phone_number, vals.email)
            status == IF FindByPhone(customers, phone) # 0 THEN 400
                      ELSE IF CustomerInsertOk(customers, row) THEN 200
                      ELSE 500
        IN  /\ Len(customers) < MaxCustomers
            /\ customers' = IF status = 200 THEN Append(customers, row) ELSE customers
            /\ last' = Step("create_customer", NoBody, status, FALSE, FALSE, NoJob, "")
            /\ UNCHANGED <<redis_client, redisUp, markers, interactions, jobs, calls, running, files, documents>>

\* POST /api/v1/customers/ as two steps, so that requests interleave:
\* customers.py:25-30, the lookup by phone number (400 when a row has it);
\* the request that passed it is in flight until its commit
CreateCustomerBegin(phones, emails) ==
    \E phone \in phones, email \in emails :
        LET vals == model_dump(CustomerCreate({"phone_number", "email"}, phone, email),
                               FALSE)
            existing == FindByPhone(customers, phone)
        IN  /\ Len(customers) + Len(running) < MaxCustomers
            /\ Len(running) < MaxWorkers
            /\ running' = IF existing # 0 THEN running
                          ELSE Append(running, [op |-> "create_customer", vals |-> vals])
            /\ last' = Step("create_customer", NoBody, IF existing # 0 THEN 400 ELSE 0,
                            FALSE, FALSE, NoJob, IF existing # 0 THEN "" ELSE "STARTED")
            /\ UNCHANGED <<redis_client, redisUp, markers, customers, interactions,
                           jobs, calls, files, documents>>

\* customers.py:32-43: the INSERT and its commit; a constraint that fails
\* rolls the insert back and the request answers 500
CreateCustomerCommit(k) ==
    LET vals == running[k].vals
        row == NewCustomer(customers, vals.first_name, vals.phone_number, vals.email)
        status == IF CustomerInsertOk(customers, row) THEN 200 ELSE 500
    IN  /\ k \in DOMAIN running
        /\ running' = Without(running, k)
        /\ customers' = IF status = 200 THEN Append(customers, row) ELSE customers
        /\ last' = Step("create_customer", NoBody, status, FALSE, FALSE, NoJob, "")
        /\ UNCHANGED <<redis_client, redisUp, markers, interactions, jobs, calls,
                       files, documents>>

\* POST /api/v1/customers/{id}/interactions (customers.py:141-177)
add_interaction(contents, notes, faults, limit) ==
    \E customer_id \in 1..MaxCustomers, channel \in {"Email"},
       content \in contents, note \in notes, brokerFault \in faults :
        LET row == InteractionRow(Len(interactions) + 1, customer_id, channel, content,
                                  note)
            found == FindById(customers, customer_id) # 0
            status == IF ~found THEN 404 ELSE IF brokerFault THEN 500 ELSE 200
        IN  /\ Len(interactions) < limit
            /\ Len(jobs) < MaxJobs
            /\ interactions' = IF found THEN Append(interactions, row) ELSE interactions
            /\ jobs' = IF status = 200
                       THEN Append(jobs, AnalyzeJob(row.interaction_id, 0, 0))
                       ELSE jobs
            /\ last' = Step("add_interaction", NoBody, status, FALSE, brokerFault,
                            NoJob, "")
            /\ UNCHANGED <<redis_client, redisUp, markers, customers, calls, running, files, documents>>

\* POST /api/v1/leads/score-lead (lead_intelligence.py:12-23): the customer is
\* not looked up; an empty text is refused
trigger_lead_scoring(customer_ids, texts) ==
    \E customer_id \in customer_ids, text_input \in texts :
        LET status == IF text_input = EmptyText THEN 400 ELSE 202
        IN  /\ Len(jobs) < MaxJobs
            /\ jobs' = IF status = 202
                       THEN Append(jobs, ScoreLeadJob(customer_id, text_input, 0, 0))
                       ELSE jobs
            /\ last' = Step("trigger_lead_scoring", NoBody, status, FALSE, FALSE,
                            NoJob, "")
            /\ UNCHANGED <<redis_client, redisUp, markers, customers, interactions,
                           calls, running, files, documents>>

\* a day passes: every interaction_timestamp is one day further in the past
Day ==
    /\ \E n \in DOMAIN interactions : interactions[n].age < MaxDays
    /\ interactions' = [n \in DOMAIN interactions |->
          IF interactions[n].age < MaxDays
          THEN [interactions[n] EXCEPT !.age = @ + 1]
          ELSE interactions[n]]
    /\ last' = Step("day", NoBody, 0, FALSE, FALSE, NoJob, "")
    /\ UNCHANGED <<redis_client, redisUp, markers, customers, jobs, calls, running,
                   files, documents>>

\* CustomerUpdate(...) (customer_schema.py:15-22): the fields given explicitly
CustomerUpdate(given, phone_number, email, customer_type) ==
    [fields_set |-> given, phone_number |-> phone_number, email |-> email,
     customer_type |-> customer_type]

\* the constraints of customer_model.py:8-11 checked by the commit of an UPDATE
CustomerUpdateOk(rows, id, row) ==
    /\ row.first_name # NULL
    /\ row.phone_number # NULL
    /\ \A i \in DOMAIN rows \ {id} : rows[i].phone_number # row.phone_number
    /\ row.email # NULL => \A i \in DOMAIN rows \ {id} : rows[i].email # row.email

\* PUT /api/v1/customers/{id} (customers.py:88-115): every field that was
\* sent is assigned, customer_type and phone_number included
update_customer(customer_ids, updates) ==
    \E customer_id \in customer_ids, customer_update \in updates :
        LET found == FindById(customers, customer_id)
            value(f, old) == IF f \in customer_update.fields_set
                             THEN customer_update[f] ELSE old
            row == [customers[found] EXCEPT
                        !.phone_number = value("phone_number", @),
                        !.email = value("email", @),
                        !.customer_type = value("customer_type", @)]
            status == IF found = 0 THEN 404
                      ELSE IF CustomerUpdateOk(customers, found, row) THEN 200
                      ELSE 500
        IN  /\ customers' = IF status = 200 THEN [customers EXCEPT ![found] = row]
                            ELSE customers
            /\ last' = Step("update_customer", NoBody, status, FALSE, FALSE, NoJob, "")
            /\ UNCHANGED <<redis_client, redisUp, markers, interactions, jobs, calls,
                           running, files, documents>>

\* POST /api/v1/analytics/trigger-daily-tasks (analytics.py:372-389)
trigger_daily_maintenance ==
    /\ Len(jobs) < MaxJobs
    /\ jobs' = Append(jobs, NurtureJob)
    /\ last' = Step("trigger_daily_maintenance", NoBody, 200, FALSE, FALSE, NoJob, "")
    /\ UNCHANGED <<redis_client, redisUp, markers, customers, interactions, calls,
                   running, files, documents>>

\* DELETE /api/v1/customers/{id} (customers.py:118-136); the interactions of
\* the customer stay, with customer_id set to NULL (interaction_model.py:13, 23)
delete_customer(customer_ids) ==
    \E customer_id \in customer_ids :
        LET found == FindById(customers, customer_id)
        IN  /\ customers' = IF found = 0 THEN customers
                            ELSE [customers EXCEPT ![found] = DeletedRow]
            /\ interactions' = [n \in DOMAIN interactions |->
                  IF found # 0 /\ interactions[n].customer_id = found
                  THEN [interactions[n] EXCEPT !.customer_id = 0]
                  ELSE interactions[n]]
            /\ last' = Step("delete_customer", NoBody, IF found = 0 THEN 404 ELSE 200,
                            FALSE, FALSE, NoJob, "")
            /\ UNCHANGED <<redis_client, redisUp, markers, jobs, calls, running,
                           files, documents>>

FollowupTypes == {"test_drive_confirmation", "send_pricing", "post_call_thankyou",
                  "nurture_warm_lead"}

\* POST /api/v1/customers/{id}/schedule-followup (customers.py:202-224): any
\* string is accepted as the type
schedule_customer_followup(customer_ids, followup_types) ==
    \E customer_id \in customer_ids, followup_type \in followup_types :
        LET status == IF FindById(customers, customer_id) = 0 THEN 404 ELSE 200
        IN  /\ Len(jobs) < MaxJobs
            /\ jobs' = IF status = 200
                       THEN Append(jobs, FollowupJob(customer_id, followup_type))
                       ELSE jobs
            /\ last' = Step("schedule_customer_followup", NoBody, status, FALSE, FALSE,
                            NoJob, "")
            /\ UNCHANGED <<redis_client, redisUp, markers, customers, interactions,
                           calls, running, files, documents>>

\* POST /api/v1/documents/generate-invoice (documents.py:11-17): nothing is
\* looked up
trigger_invoice_generation(customer_ids, vehicle_ids) ==
    \E customer_id \in customer_ids, vehicle_id \in vehicle_ids :
        /\ Len(jobs) < MaxJobs
        /\ jobs' = Append(jobs, InvoiceJob(customer_id, vehicle_id))
        /\ last' = Step("trigger_invoice_generation", NoBody, 200, FALSE, FALSE,
                        NoJob, "")
        /\ UNCHANGED <<redis_client, redisUp, markers, customers, interactions,
                       calls, running, files, documents>>

\* POST /api/v1/customers/{id}/score-lead (customers.py:227-250)
manually_score_lead(customer_ids, texts) ==
    \E customer_id \in customer_ids, text_input \in texts :
        LET status == IF FindById(customers, customer_id) = 0 THEN 404 ELSE 200
        IN  /\ Len(jobs) < MaxJobs
            /\ jobs' = IF status = 200
                       THEN Append(jobs, ScoreLeadJob(customer_id, text_input, 0, 0))
                       ELSE jobs
            /\ last' = Step("manually_score_lead", NoBody, status, FALSE, FALSE,
                            NoJob, "")
            /\ UNCHANGED <<redis_client, redisUp, markers, customers, interactions,
                           calls, running, files, documents>>

----------------------------------------------------------------------------
(* workflow/tasks.py: the jobs                                             *)

\* self.retry(countdown=...): publishes the job again with retries + 1
Retried(job, countdown) == [job EXCEPT !.retries = @ + 1, !.countdown = countdown]

\* variant: previous_status is read back after the write
score_lead_task_ReadAfterWrite(job, dbFault) ==
    LET lead_status == score_lead_from_text(job.text)
        found == FindById(customers, job.customer_id)
        again == job.retries < SCORE_MAX_RETRIES
        backoff == Pow2(job.retries) * 5
    IN  IF dbFault
        THEN [result |-> IF again THEN "RETRY" ELSE "FAILURE",
              published |-> IF again THEN <<Retried(job, backoff)>> ELSE << >>,
              customers |-> customers, previous_status |-> NULL]
        ELSE IF found = 0
        THEN [result |-> IF again THEN "RETRY" ELSE "FAILURE",
              published |-> IF again THEN <<Retried(job, 5), Retried(job, backoff)>>
                            ELSE << >>,
              customers |-> customers, previous_status |-> NULL]
        ELSE [result |-> "SUCCESS", published |-> << >>,
              customers |-> [customers EXCEPT ![found].customer_type = lead_status],
              previous_status |-> lead_status]

\* tasks.py:56-108.  self.retry raises celery's Retry, an Exception: the retry
\* requested at line 79 is caught at line 97, where line 104 requests another.
score_lead_task(job, dbFault) ==
    LET lead_status == score_lead_from_text(job.text)
        found == FindById(customers, job.customer_id)
        again == job.retries < SCORE_MAX_RETRIES
        backoff == Pow2(job.retries) * 5
    IN  IF dbFault
        THEN [result |-> IF again THEN "RETRY" ELSE "FAILURE",
              published |-> IF again THEN <<Retried(job, backoff)>> ELSE << >>,
              customers |-> customers, previous_status |-> NULL]
        ELSE IF found = 0
        THEN [result |-> IF again THEN "RETRY" ELSE "FAILURE",
              published |-> IF again THEN <<Retried(job, 5), Retried(job, backoff)>>
                            ELSE << >>,
              customers |-> customers, previous_status |-> NULL]
        ELSE [result |-> "SUCCESS", published |-> << >>,
              customers |-> [customers EXCEPT ![found].customer_type = lead_status],
              previous_status |-> customers[found].customer_type]

\* the longest queue: MaxJobs fresh messages, or the retries one job leaves
\* behind until its last attempt
QueueCap == MaxJobs + SCORE_MAX_RETRIES - 1

\* variant: the messages a run publishes are lost
ScoreLeadRun_RetryLost(i, dbFault) ==
        LET job == jobs[i]
            out == score_lead_task(job, dbFault)
        IN  /\ i \in DOMAIN jobs
            /\ job.name = "score_lead_task"
            /\ jobs' = Without(jobs, i)
            /\ customers' = out.customers
            /\ last' = [Step("score_lead_task", NoBody, 0, dbFault, FALSE, job, out.result)
                          EXCEPT !.previous_status = out.previous_status,
                                 !.new_status = IF out.result = "SUCCESS"
                                                THEN score_lead_from_text(job.text)
                                                ELSE NULL]
            /\ UNCHANGED <<redis_client, redisUp, markers, interactions, calls,
                           running, files, documents>>

\* a worker takes the i-th message of the queue and runs score_lead_task
ScoreLeadRun(i, dbFault) ==
        LET job == jobs[i]
            out == score_lead_task(job, dbFault)
        IN  /\ i \in DOMAIN jobs
            /\ job.name = "score_lead_task"
            /\ Len(jobs) - 1 + Len(out.published) <= QueueCap
            /\ jobs' = Without(jobs, i) \o out.published
            /\ customers' = out.customers
            /\ last' = [Step("score_lead_task", NoBody, 0, dbFault, FALSE, job, out.result)
                          EXCEPT !.previous_status = out.previous_status,
                                 !.new_status = IF out.result = "SUCCESS"
                                                THEN score_lead_from_text(job.text)
                                                ELSE NULL]
            /\ UNCHANGED <<redis_client, redisUp, markers, interactions, calls,
                           running, files, documents>>

ScoreLeadWorker(faults) ==
    \E i \in 1..QueueCap, dbFault \in faults : ScoreLeadRun(i, dbFault)

\* tasks.py:84-106 when db.refresh (line 87) raises: the commit of line 86 has
\* written the tier, db.rollback() at line 98 has nothing to undo, and the
\* handler requests a retry or, after the last one, lets the error through
ScoreLeadRefreshFault(i) ==
        LET job == jobs[i]
            lead_status == score_lead_from_text(job.text)
            found == FindById(customers, job.customer_id)
            again == job.retries < SCORE_MAX_RETRIES
            published == IF again THEN <<Retried(job, Pow2(job.retries) * 5)>>
                         ELSE << >>
        IN  /\ i \in DOMAIN jobs
            /\ job.name = "score_lead_task"
            /\ found # 0
            /\ Len(jobs) - 1 + Len(published) <= QueueCap
            /\ jobs' = Without(jobs, i) \o published
            /\ customers' = [customers EXCEPT ![found].customer_type = lead_status]
            /\ last' = [Step("score_lead_task", NoBody, 0, TRUE, FALSE, job,
                             IF again THEN "RETRY" ELSE "FAILURE")
                          EXCEPT !.previous_status = customers[found].customer_type,
                                 !.new_status = lead_status]
            /\ UNCHANGED <<redis_client, redisUp, markers, interactions, calls,
                           running, files, documents>>

\* Worker processes run score_lead_task side by side, each with its own
\* session.  tasks.py:61-83: the job is taken and the row is loaded; a job that
\* does not find the row ends here as in ScoreLeadRun.
ScoreLeadBegin(i) ==
    IF i \in DOMAIN jobs /\ FindById(customers, jobs[i].customer_id) = 0
    THEN ScoreLeadRun(i, FALSE)
    ELSE /\ i \in DOMAIN jobs
         /\ jobs[i].name = "score_lead_task"
         /\ Len(running) < MaxWorkers
         /\ jobs' = Without(jobs, i)
         /\ running' = Append(running,
                [job |-> jobs[i],
                 old_status |-> customers[jobs[i].customer_id].customer_type])
         /\ last' = Step("score_lead_task", NoBody, 0, FALSE, FALSE, jobs[i], "STARTED")
         /\ UNCHANGED <<redis_client, redisUp, markers, customers, interactions,
                        calls, files, documents>>

\* variant: the commit is refused when the row changed since it was loaded
ScoreLeadCommit_Versioned(k) ==
    LET job == running[k].job
        old_status == running[k].old_status
        lead_status == score_lead_from_text(job.text)
        stale == customers[job.customer_id].customer_type # old_status
    IN  /\ k \in DOMAIN running
        /\ running' = Without(running, k)
        /\ customers' = IF lead_status # old_status /\ ~stale
                        THEN [customers EXCEPT ![job.customer_id].customer_type =
                                                   lead_status]
                        ELSE customers
        /\ last' = [Step("score_lead_task", NoBody, 0, FALSE, FALSE, job,
                         IF stale THEN "FAILURE" ELSE "SUCCESS")
                      EXCEPT !.previous_status = old_status, !.new_status = lead_status]
        /\ UNCHANGED <<redis_client, redisUp, markers, interactions, jobs, calls,
                       files, documents>>

\* tasks.py:84-95: customer.customer_type = lead_status; db.commit().  The
\* session flushes an UPDATE of the column only when the value assigned differs
\* from the value it loaded; the UPDATE overwrites whatever the row holds now.
ScoreLeadCommit(k) ==
    LET job == running[k].job
        old_status == running[k].old_status
        lead_status == score_lead_from_text(job.text)
    IN  /\ k \in DOMAIN running
        /\ running' = Without(running, k)
        /\ customers' = IF lead_status # old_status
                        THEN [customers EXCEPT ![job.customer_id].customer_type =
                                                   lead_status]
                        ELSE customers
        /\ last' = [Step("score_lead_task", NoBody, 0, FALSE, FALSE, job, "SUCCESS")
                      EXCEPT !.previous_status = old_status, !.new_status = lead_status]
        /\ UNCHANGED <<redis_client, redisUp, markers, interactions, jobs, calls,
                       files, documents>>

\* variant: the two follow-up types are exchanged
FollowupsFor_Exchanged(customer_id, intents) ==
    (IF InList("test_drive", intents)
     THEN <<FollowupJob(customer_id, "send_pricing")>> ELSE << >>)
    \o (IF InList("pricing", intents)
        THEN <<FollowupJob(customer_id, "test_drive_confirmation")>> ELSE << >>)

\* tasks.py:159-163: the follow-ups requested for the detected intents
FollowupsFor(customer_id, intents) ==
    (IF InList("test_drive", intents)
     THEN <<FollowupJob(customer_id, "test_drive_confirmation")>> ELSE << >>)
    \o (IF InList("pricing", intents)
        THEN <<FollowupJob(customer_id, "send_pricing")>> ELSE << >>)

\* variant: the column is used as it is stored
ContentOrEmpty_Raw(stored) == stored

\* tasks.py:132: interaction.content or ""
ContentOrEmpty(stored) == IF stored = NullContent THEN EmptyText ELSE stored

\* variant: a row that was analysed before gets the outcome of a duplicate
analyze_interaction_task_MarkDuplicate(job, dbFault, brokerFault) ==
    LET found == IF job.interaction_id \in DOMAIN interactions
                 THEN job.interaction_id ELSE 0
        again == job.retries < ANALYZE_MAX_RETRIES
        content == ContentOrEmpty(interactions[found].content)
        intents == extract_key_intents(content)
        written == [interactions EXCEPT
                       ![found].sentiment = analyze_conversation_sentiment(content),
                       ![found].summary = generate_interaction_summary(content),
                       ![found].outcome =
                           IF interactions[found].sentiment # NULL
                           THEN "Duplicate analysis"
                           ELSE determine_outcome_from_intents(intents)]
        customer_id == interactions[found].customer_id
        wanted == FollowupsFor(customer_id, intents)
        raised == brokerFault > 0 /\ brokerFault <= Len(wanted)
        sent == IF raised THEN SubSeq(wanted, 1, brokerFault - 1) ELSE wanted
    IN  IF dbFault
        THEN [result |-> IF again THEN "RETRY" ELSE "FAILURE",
              published |-> IF again THEN <<Retried(job, 10)>> ELSE << >>,
              interactions |-> interactions]
        ELSE IF found = 0
        THEN [result |-> IF again THEN "RETRY" ELSE "FAILURE",
              published |-> IF again THEN <<Retried(job, 5), Retried(job, 10)>>
                            ELSE << >>,
              interactions |-> interactions]
        ELSE IF content = EmptyText
        THEN [result |-> "SUCCESS", published |-> << >>, interactions |-> interactions]
        ELSE IF raised
        THEN [result |-> IF again THEN "RETRY" ELSE "FAILURE",
              published |-> sent \o (IF again THEN <<Retried(job, 10)>> ELSE << >>),
              interactions |-> written]
        ELSE [result |-> "SUCCESS", published |-> sent, interactions |-> written]

\* tasks.py:111-181.  brokerFault = k > 0: the k-th .delay() of the run raises.
analyze_interaction_task(job, dbFault, brokerFault) ==
    LET found == IF job.interaction_id \in DOMAIN interactions
                 THEN job.interaction_id ELSE 0
        again == job.retries < ANALYZE_MAX_RETRIES
        content == ContentOrEmpty(interactions[found].content)
        intents == extract_key_intents(content)
        written == [interactions EXCEPT
                       ![found].sentiment = analyze_conversation_sentiment(content),
                       ![found].summary = generate_interaction_summary(content),
                       ![found].outcome = determine_outcome_from_intents(intents)]
        customer_id == interactions[found].customer_id
        wanted == FollowupsFor(customer_id, intents)
        raised == brokerFault > 0 /\ brokerFault <= Len(wanted)
        sent == IF raised THEN SubSeq(wanted, 1, brokerFault - 1) ELSE wanted
    IN  IF dbFault
        THEN [result |-> IF again THEN "RETRY" ELSE "FAILURE",
              published |-> IF again THEN <<Retried(job, 10)>> ELSE << >>,
              interactions |-> interactions]
        ELSE IF found = 0
        THEN [result |-> IF again THEN "RETRY" ELSE "FAILURE",
              published |-> IF again THEN <<Retried(job, 5), Retried(job, 10)>>
                            ELSE << >>,
              interactions |-> interactions]
        ELSE IF content = EmptyText
        THEN [result |-> "SUCCESS", published |-> << >>, interactions |-> interactions]
        ELSE IF raised
        THEN [result |-> IF again THEN "RETRY" ELSE "FAILURE",
              published |-> sent \o (IF again THEN <<Retried(job, 10)>> ELSE << >>),
              interactions |-> written]
        ELSE [result |-> "SUCCESS", published |-> sent, interactions |-> written]

\* the broker delivers analyze_interaction_task(interaction_id) for an id
\* that no row of the worker's database has: the case tasks.py:124-130 is
\* written for
StrayAnalyze(interaction_ids) ==
    \E interaction_id \in interaction_ids :
        /\ interaction_id \notin DOMAIN interactions
        /\ Len(jobs) < MaxJobs
        /\ jobs' = Append(jobs, AnalyzeJob(interaction_id, 0, 0))
        /\ last' = Step("delay", NoBody, 0, FALSE, FALSE, NoJob, "")
        /\ UNCHANGED <<redis_client, redisUp, markers, customers, interactions, calls,
                       running, files, documents>>

\* variant: the sentiment column is left as it was
AnalyzeWorker_NoSentiment(dbFaults, brokerFaults) ==
    \E i \in DOMAIN jobs, dbFault \in dbFaults, brokerFault \in brokerFaults :
        LET job == jobs[i]
            out == analyze_interaction_task(job, dbFault, brokerFault)
        IN  /\ job.name = "analyze_interaction_task"
            /\ Len(jobs) - 1 + Len(out.published) <= QueueCap
            /\ jobs' = Without(jobs, i) \o out.published
            /\ interactions' = [n \in DOMAIN interactions |->
                  [out.interactions[n] EXCEPT !.sentiment = interactions[n].sentiment]]
            /\ last' = Step("analyze_interaction_task", NoBody, 0, dbFault,
                            brokerFault > 0, job, out.result)
            /\ UNCHANGED <<redis_client, redisUp, markers, customers, calls, running, files, documents>>

AnalyzeWorker(dbFaults, brokerFaults) ==
    \E i \in DOMAIN jobs, dbFault \in dbFaults, brokerFault \in brokerFaults :
        LET job == jobs[i]
            out == analyze_interaction_task(job, dbFault, brokerFault)
        IN  /\ job.name = "analyze_interaction_task"
            /\ Len(jobs) - 1 + Len(out.published) <= QueueCap
            /\ jobs' = Without(jobs, i) \o out.published
            /\ interactions' = out.interactions
            /\ last' = Step("analyze_interaction_task", NoBody, 0, dbFault,
                            brokerFault > 0, job, out.result)
            /\ UNCHANGED <<redis_client, redisUp, markers, customers, calls, running, files, documents>>

\* variant: the countdown is the number of hours
FollowupDelay_Hours(followup_type) ==
    CASE followup_type = "test_drive_confirmation" -> 2
      [] followup_type = "send_pricing" -> 1
      [] followup_type = "post_call_thankyou" -> 0
      [] followup_type = "nurture_warm_lead" -> 24
      [] OTHER -> 0

\* tasks.py:200-229: int(delay_hours * 3600); 0 for an unknown type
FollowupDelay(followup_type) ==
    CASE followup_type = "test_drive_confirmation" -> 7200
      [] followup_type = "send_pricing" -> 3600
      [] followup_type = "post_call_thankyou" -> 1800
      [] followup_type = "nurture_warm_lead" -> 86400
      [] OTHER -> 0

FollowupTemplate(followup_type) ==
    CASE followup_type = "test_drive_confirmation" -> "test_drive_followup"
      [] followup_type = "send_pricing" -> "pricing_info"
      [] followup_type = "post_call_thankyou" -> "post_call_thankyou"
      [] followup_type = "nurture_warm_lead" -> "nurture_campaign"
      [] OTHER -> ""

\* tasks.py:184-250: every exception is caught and the job returns None
schedule_followup_task(job, dbFault, brokerFault) ==
    LET found == FindById(customers, job.customer_id)
        email == customers[found].email
    IN  IF dbFault \/ found = 0 \/ FollowupTemplate(job.followup_type) = "" THEN << >>
        ELSE IF email # NULL /\ ~brokerFault
        THEN <<EmailJob(email, FollowupTemplate(job.followup_type), job.customer_id,
                        FollowupDelay(job.followup_type))>>
        ELSE << >>

FollowupWorker(faults) ==
    \E i \in DOMAIN jobs, dbFault \in faults, brokerFault \in faults :
        LET job == jobs[i]
        IN  /\ job.name = "schedule_followup_task"
            /\ jobs' = Without(jobs, i) \o schedule_followup_task(job, dbFault, brokerFault)
            /\ last' = Step("schedule_followup_task", NoBody, 0, dbFault, brokerFault,
                            job, "SUCCESS")
            /\ UNCHANGED <<redis_client, redisUp, markers, customers, interactions, calls, running, files, documents>>

\* tasks.py:253-287: a missing customer ends the job quietly; a failing
\* send_email_with_attachment is re-raised and the job fails
EmailWorker(faults) ==
    \E i \in DOMAIN jobs, smtpFault \in faults :
        LET job == jobs[i]
        IN  /\ job.name = "send_followup_email_task"
            /\ jobs' = Without(jobs, i)
            /\ last' = Step("send_followup_email_task", NoBody, 0, FALSE, smtpFault, job,
                            IF FindById(customers, job.customer_id) # 0 /\ smtpFault
                            THEN "FAILURE" ELSE "SUCCESS")
            /\ UNCHANGED <<redis_client, redisUp, markers, customers, interactions, calls, running, files, documents>>

\* the rows of table "vehicles"; no operation of the program changes them
Vehicles == {1}

\* generator.py:40, 52-53: INV-<date>-<customer_id>.pdf under OUTPUT_DIR; the
\* model stays within one day
InvoicePath(customer_id) == <<"generated_documents", "INV", customer_id>>

\* variant: the email job is published as soon as the PDF is rendered
generate_invoice_task_EmailFirst(job, pdfFault, dbFault, brokerFault) ==
    LET customer == FindById(customers, job.customer_id)
        path == InvoicePath(job.customer_id)
        rendered == files \cup {path}
        stored == documents \cup {path}
        out(result, fs, docs, published) ==
            [result |-> result, files |-> fs, documents |-> docs, published |-> published]
    IN  IF customer = 0 \/ job.vehicle_id \notin Vehicles
        THEN out("FAILURE", files, documents, << >>)
        ELSE IF pdfFault THEN out("FAILURE", rendered, documents, << >>)
        ELSE IF customers[customer].email = NULL
        THEN out("FAILURE", rendered, documents, << >>)
        ELSE IF brokerFault THEN out("FAILURE", rendered, documents, << >>)
        ELSE IF dbFault \/ path \in documents
        THEN out("FAILURE", rendered, documents,
                 <<InvoiceEmailJob(customers[customer].email, path)>>)
        ELSE out("SUCCESS", rendered, stored,
                 <<InvoiceEmailJob(customers[customer].email, path)>>)

\* tasks.py:19-38 with create_invoice_pdf (generator.py:16-72).  The file is
\* opened for writing before the PDF is made, so it exists even when the
\* rendering fails; the Document row is committed inside create_invoice_pdf;
\* file_path is unique; the task re-raises everything and is not retried.
generate_invoice_task(job, pdfFault, dbFault, brokerFault) ==
    LET customer == FindById(customers, job.customer_id)
        path == InvoicePath(job.customer_id)
        rendered == files \cup {path}
        stored == documents \cup {path}
        out(result, fs, docs, published) ==
            [result |-> result, files |-> fs, documents |-> docs, published |-> published]
    IN  IF customer = 0 \/ job.vehicle_id \notin Vehicles
        THEN out("FAILURE", files, documents, << >>)
        ELSE IF pdfFault THEN out("FAILURE", rendered, documents, << >>)
        ELSE IF dbFault \/ path \in documents
        THEN out("FAILURE", rendered, documents, << >>)
        ELSE IF customers[customer].email = NULL
        THEN out("FAILURE", rendered, stored, << >>)
        ELSE IF brokerFault THEN out("FAILURE", rendered, stored, << >>)
        ELSE out("SUCCESS", rendered, stored,
                 <<InvoiceEmailJob(customers[customer].email, path)>>)

InvoiceWorker(pdfFaults, dbFaults, brokerFaults) ==
    \E i \in DOMAIN jobs, pdfFault \in pdfFaults, dbFault \in dbFaults,
       brokerFault \in brokerFaults :
        LET job == jobs[i]
            out == generate_invoice_task(job, pdfFault, dbFault, brokerFault)
        IN  /\ job.name = "generate_invoice_task"
            /\ jobs' = Without(jobs, i) \o out.published
            /\ files' = out.files
            /\ documents' = out.documents
            /\ last' = Step("generate_invoice_task", NoBody, 0, pdfFault \/ dbFault,
                            brokerFault, job, out.result)
            /\ UNCHANGED <<redis_client, redisUp, markers, customers, interactions,
                           calls, running>>

\* tasks.py:301: three_days_ago = utcnow() - timedelta(days=3)
STALE_DAYS == 3

\* variant: the oldest interaction of the customer is taken
LastInteraction_Oldest(customer_id) ==
    LET own == {n \in DOMAIN interactions : interactions[n].customer_id = customer_id}
    IN  IF own = {} THEN 0
        ELSE CHOOSE n \in own : \A m \in own : interactions[m].age <= interactions[n].age

\* tasks.py:311-313: the customer's interactions by interaction_timestamp
\* descending, .first(): 0 when there is none
LastInteraction(customer_id) ==
    LET own == {n \in DOMAIN interactions : interactions[n].customer_id = customer_id}
    IN  IF own = {} THEN 0
        ELSE CHOOSE n \in own : \A m \in own : interactions[n].age <= interactions[m].age

\* tasks.py:304-306: the rows with customer_type == 'Warm Lead'; the query
\* has no ORDER BY, so .all() may return them in any order
WarmLeadOrders ==
    LET warm == {c \in DOMAIN customers : customers[c].customer_type = "Warm Lead"}
    IN  {order \in [1..Cardinality(warm) -> warm] :
            \A i, j \in DOMAIN order : i # j => order[i] # order[j]}

\* tasks.py:290-333: brokerFaultAt = k makes the k-th .delay() of the run
\* raise (0: none does); what was published before stays published, the
\* exception is re-raised, and the task declares no retry
daily_lead_nurture_task(warm_leads, dbFault, brokerFaultAt) ==
    LET nurture(customer_id) ==
            LET last_interaction == LastInteraction(customer_id)
            IN  /\ last_interaction # 0
                /\ interactions[last_interaction].age > STALE_DAYS
                /\ customers[customer_id].email # NULL
        nurtured == SelectSeq(warm_leads, nurture)
        msg(k) == FollowupJob(nurtured[k], "nurture_warm_lead")
    IN  IF dbFault THEN [result |-> "FAILURE", published |-> << >>]
        ELSE IF brokerFaultAt \in DOMAIN nurtured
        THEN [result |-> "FAILURE",
              published |-> [k \in 1..(brokerFaultAt - 1) |-> msg(k)]]
        ELSE [result |-> "SUCCESS",
              published |-> [k \in DOMAIN nurtured |-> msg(k)]]

NurtureWorker(dbFaults, brokerFaultsAt) ==
    \E i \in DOMAIN jobs, warm_leads \in WarmLeadOrders, dbFault \in dbFaults,
       brokerFaultAt \in brokerFaultsAt :
        LET job == jobs[i]
            out == daily_lead_nurture_task(warm_leads, dbFault, brokerFaultAt)
        IN  /\ job.name = "daily_lead_nurture_task"
            /\ jobs' = Without(jobs, i) \o out.published
            /\ last' = Step("daily_lead_nurture_task", NoBody, 0, dbFault,
                            brokerFaultAt # 0, job, out.result)
            /\ UNCHANGED <<redis_client, redisUp, markers, customers, interactions,
                           calls, running, files, documents>>

\* tasks.py:41-53: a failing send_email_with_attachment is re-raised and the
\* job fails; the task declares no retry
InvoiceEmailWorker(faults) ==
    \E i \in DOMAIN jobs, smtpFault \in faults :
        LET job == jobs[i]
        IN  /\ job.name = "send_invoice_email_task"
            /\ jobs' = Without(jobs, i)
            /\ last' = Step("send_invoice_email_task", NoBody, 0, FALSE, smtpFault, job,
                            IF smtpFault THEN "FAILURE" ELSE "SUCCESS")
            /\ UNCHANGED <<redis_client, redisUp, markers, customers, interactions,
                           calls, running, files, documents>>

----------------------------------------------------------------------------
(* Specifications                                                          *)

NoFault == {FALSE}

\* the whole pipeline on the core events, no injected faults
Workers ==
    \/ ScoreLeadWorker(NoFault)
    \/ AnalyzeWorker(NoFault, {0})
    \/ FollowupWorker(NoFault)
    \/ EmailWorker(NoFault)

Next ==
    \/ Webhook(CoreBodies, NoFault)
    \/ RedisFlip
    \/ Tick
    \/ create_customer({"+111"}, Emails)
    \/ add_interaction({TestDriveText, PricingText}, {NoNote}, NoFault, MaxInteractions)
    \/ Workers

Spec == Init /\ [][Next]_vars

\* every queued job is eventually run by some worker
FairSpec == Spec /\ WF_vars(Workers)

\* the webhook boundary: envelopes, malformed inner fields, injected faults
EnvelopeNext ==
    \/ Webhook(ShapeBodies, BOOLEAN)
    \/ RedisFlip
    \/ create_customer({"+111"}, Emails)
    \/ ScoreLeadWorker(NoFault)

EnvelopeSpec == Init /\ [][EnvelopeNext]_vars

\* call-end events over every combination of the transcript locations
TranscriptNext ==
    \/ Webhook(TranscriptBodies, NoFault)
    \/ create_customer({"+111"}, Emails)
    \/ ScoreLeadWorker(NoFault)

TranscriptSpec == Init /\ [][TranscriptNext]_vars

\* the session markers: call ids, store outages, the passing of time
MarkerNext ==
    \/ Webhook(MarkerBodies, BOOLEAN)
    \/ RedisFlip
    \/ Tick
    \/ create_customer({"+111"}, Emails)
    \/ ScoreLeadWorker(NoFault)

MarkerSpec == Init /\ [][MarkerNext]_vars

\* lead scoring requested for customer 1, who is created before, between or
\* after the attempts, or never; the jobs run one after the other
ScoringNext ==
    \/ trigger_lead_scoring({1}, {UrgentText, EmptyText})
    \/ create_customer({"+111"}, Emails)
    \/ ScoreLeadWorker(NoFault)

ScoringSpec == Init /\ [][ScoringNext]_vars

\* no message stays in the queue for ever: a worker takes each of them
FairScoringSpec ==
    ScoringSpec /\ \A i \in 1..QueueCap : WF_vars(ScoreLeadRun(i, FALSE))

\* lead scoring of existing customers, one job after the other
TierNext ==
    \/ manually_score_lead({1, 2}, {UrgentText, JustLookingText, PricingText})
    \/ create_customer(Phones, OptEmails)
    \/ ScoreLeadWorker(NoFault)

TierSpec == Init /\ [][TierNext]_vars

\* the analysis of interactions: any content, notes of the client, database
\* and broker failures during the job
AnalysisNext ==
    \/ create_customer({"+111"}, Emails)
    \/ add_interaction({TestDriveText, BothText, GreatPricingText, HelloText, EmptyText},
                       {NoNote, ClientNote}, NoFault, MaxInteractions)
    \/ AnalyzeWorker(BOOLEAN, {0, 1, 2})
    \/ FollowupWorker(NoFault)
    \/ EmailWorker(NoFault)

AnalysisSpec == Init /\ [][AnalysisNext]_vars

\* follow-ups requested for customers with and without email, deleted
\* customers, unknown types, failing database and broker
FollowupNext ==
    \/ create_customer(Phones, OptEmails)
    \/ delete_customer({1})
    \/ schedule_customer_followup({1, 2}, FollowupTypes \cup {"birthday"})
    \/ FollowupWorker(BOOLEAN)
    \/ EmailWorker(NoFault)

FollowupSpec == Init /\ [][FollowupNext]_vars

\* the two email jobs with a mail server that fails at times
EmailNext ==
    \/ create_customer({"+111"}, Emails)
    \/ schedule_customer_followup({1}, {"send_pricing"})
    \/ trigger_invoice_generation({1}, {1})
    \/ FollowupWorker(NoFault)
    \/ InvoiceWorker(NoFault, NoFault, NoFault)
    \/ EmailWorker(BOOLEAN)
    \/ InvoiceEmailWorker(BOOLEAN)

EmailSpec == Init /\ [][EmailNext]_vars

\* invoices for existing and missing customers and vehicles, customers
\* without email, failures of the rendering, the database and the broker
InvoiceNext ==
    \/ create_customer(Phones, OptEmails)
    \/ trigger_invoice_generation({1, 2}, {1, 2})
    \/ InvoiceWorker(BOOLEAN, BOOLEAN, BOOLEAN)
    \/ InvoiceEmailWorker(NoFault)

InvoiceSpec == Init /\ [][InvoiceNext]_vars

\* the nightly nurture run over customers of several tiers, with and without
\* an address, whose interactions age day by day
NurtureNext ==
    \/ create_customer(Phones, OptEmails)
    \/ update_customer(1..MaxCustomers,
                       {CustomerUpdate({"customer_type"}, NULL, NULL, "Warm Lead")})
    \/ add_interaction({HelloText}, {NoNote}, BOOLEAN, MaxInteractions + 1)
    \/ Day
    \/ trigger_daily_maintenance
    \/ NurtureWorker(BOOLEAN, {0, 1})

NurtureSpec == Init /\ [][NurtureNext]_vars

\* call-end webhooks, create-customer requests in flight together and phone
\* number updates, all on the same two numbers
PhoneNext ==
    \/ Webhook(CoreBodies, NoFault)
    \/ CreateCustomerBegin(Phones, OptEmails)
    \/ \E k \in 1..MaxWorkers : CreateCustomerCommit(k)
    \/ update_customer(1..MaxCustomers,
                       {CustomerUpdate({"phone_number"}, p, NULL, NULL) : p \in Phones})

PhoneSpec == Init /\ [][PhoneNext]_vars

\* the texts of at most MaxPhrases phrases
Texts == UNION {[1..n -> Phrases] : n \in 0..MaxPhrases}

\* nothing stored, nothing queued; `last` holds the input of a pure function
Idle(input) ==
    /\ redis_client = FALSE
    /\ redisUp = FALSE
    /\ markers = [key \in MarkerKeys |-> 0]
    /\ customers = << >>
    /\ interactions = << >>
    /\ jobs = << >>
    /\ last = input
    /\ calls = [id \in CallIds |-> {}]
    /\ running = << >>
    /\ files = {}
    /\ documents = {}

\* a call of a pure function: its name and its value are recorded
Returns(op, value) ==
    /\ last' = [last EXCEPT !.op = op, !.result = value]
    /\ UNCHANGED <<redis_client, redisUp, markers, customers, interactions, jobs,
                   calls, running, files, documents>>

\* the text analysis functions, each applied to every text
AnalyzerInit ==
    \E text \in Texts :
        Idle([Step("init", NoBody, 0, FALSE, FALSE, NoJob, "") EXCEPT !.job.text = text])

AnalyzerNext ==
    \/ Returns("score_lead_from_text", score_lead_from_text(last.job.text))
    \/ Returns("analyze_conversation_sentiment",
               analyze_conversation_sentiment(last.job.text))
    \/ Returns("extract_key_intents", extract_key_intents(last.job.text))
    \/ Returns("calculate_engagement_score", calculate_engagement_score(last.job.text))

AnalyzerSpec == AnalyzerInit /\ [][AnalyzerNext]_vars

\* the customers prioritize_leads is given: of every tier, of a tier the
\* table does not know, without a tier, with and without a last conversation
LeadTypes == {"Hot Lead", "Warm Lead", "Prospect", "Cold Lead", "VIP", NULL}
LeadTexts == {HelloText, GreatText, EmptyText}
LeadLists ==
    UNION {[1..n -> [customer_type : LeadTypes, last_conversation : LeadTexts]] :
              n \in 0..MaxLeads}

\* the i-th customer of the list has customer_id i
CustomersData(list) ==
    [i \in DOMAIN list |->
        [customer_id |-> i, customer_type |-> list[i].customer_type,
         last_conversation |-> list[i].last_conversation]]

PriorityInit ==
    \E list \in LeadLists :
        Idle([Step("init", NoBody, 0, FALSE, FALSE, NoJob, "")
                 EXCEPT !.body = CustomersData(list)])

PriorityNext == Returns("prioritize_leads", prioritize_leads(last.body))

PrioritySpec == PriorityInit /\ [][PriorityNext]_vars

\* the exception of `text.lower()` when last_conversation is None
AttributeError == "AttributeError: 'NoneType' object has no attribute 'lower'"

\* analyzer.py:237-281.  last_conversation is a text or None (Str(t), NullT);
\* a customer_type that is missing is NULL, .get() gives 'Prospect' for it.
\* extract_key_intents and analyze_conversation_sentiment return early on
\* `not text`, for None as for ''.
recommend_next_action(customer_data) ==
    LET none == customer_data.last_conversation = NullT
        text == customer_data.last_conversation.s
        customer_type == IF customer_data.customer_type = NULL THEN "Prospect"
                         ELSE customer_data.customer_type
        days_since_contact == customer_data.days_since_last_contact
        intents == extract_key_intents(text)
        sentiment == analyze_conversation_sentiment(text)
    IN  IF customer_type = "Hot Lead"
        THEN IF InList("purchase_ready", intents)
             THEN "URGENT: Schedule closing meeting within 24 hours"
             ELSE IF InList("test_drive", intents)
             THEN "HIGH PRIORITY: Confirm test drive appointment immediately"
             ELSE IF days_since_contact > 2
             THEN "FOLLOW UP: Contact within 4 hours - hot lead cooling"
             ELSE "MONITOR: Prepare for next interaction"
        ELSE IF customer_type = "Warm Lead"
        THEN IF InList("test_drive", intents)
             THEN "Schedule test drive within 48 hours"
             ELSE IF InList("pricing", intents)
             THEN "Send detailed pricing and financing options"
             ELSE IF days_since_contact > 5
             THEN "Send nurture email with new inventory updates"
             ELSE "Continue regular follow-up in 3 days"
        ELSE IF customer_type = "Prospect"
        THEN IF sentiment = "Positive"
             THEN "Send welcome email with showroom invitation"
             ELSE IF none
             THEN AttributeError
             ELSE IF Occurs("information", text)
             THEN "Send comprehensive brochure and schedule call"
             ELSE "Add to nurture campaign - weekly updates"
        ELSE IF days_since_contact < 30
             THEN "Add to quarterly newsletter"
             ELSE "Archive - re-engage only if customer initiates contact"

\* the snapshots recommend_next_action is given (analytics.py:139-166): the
\* content of the customer's latest interaction, which may be NULL, the
\* tier, and the whole days since that interaction (999 without one)
RecommendPhrases == {"buy now", "Test Drive", "pricing", "great", "Information",
                     "hello"}
RecommendTexts == UNION {[1..n -> RecommendPhrases] : n \in 0..MaxPhrases}
ContactDays == {0, 2, 3, 5, 6, 29, 30, 999}

RecommendInit ==
    \E customer_type \in LeadTypes, days \in ContactDays,
       tv \in {NullT} \cup {Str(t) : t \in RecommendTexts} :
        Idle([Step("init", NoBody, 0, FALSE, FALSE, NoJob, "")
                 EXCEPT !.body = [customer_type |-> customer_type,
                                  last_conversation |-> tv,
                                  days_since_last_contact |-> days]])

RecommendNext == Returns("recommend_next_action", recommend_next_action(last.body))

RecommendSpec == RecommendInit /\ [][RecommendNext]_vars

\* call-end requests that overlap one another and the customers API; a
\* request stays in `running` when it is done, MaxWorkers bounds the
\* requests of a run
CallEndNext ==
    \/ CallEndLookup(ObjBodies(CallEndMsgs), BOOLEAN)
    \/ \E k \in 1..MaxWorkers : CallEndCommit(k)
    \/ \E k \in 1..MaxWorkers : CallEndFinish(k, BOOLEAN)
    \/ create_customer({"+111"}, OptEmails)

CallEndSpec == Init /\ [][CallEndNext]_vars

\* call events with the number at either position, and the customers API
NumberNext ==
    \/ Webhook(ObjBodies(NumberMsgs), {FALSE})
    \/ create_customer(Phones, OptEmails)

NumberSpec == Init /\ [][NumberNext]_vars

\* analysis jobs for rows with content, with empty content, with content
\* NULL, and for rows that do not exist
StrayNext ==
    \/ create_customer({"+111"}, Emails)
    \/ add_interaction({TestDriveText, EmptyText, NullContent}, {NoNote}, NoFault,
                       MaxInteractions)
    \/ StrayAnalyze(1..MaxInteractions + 1)
    \/ AnalyzeWorker(BOOLEAN, {0})

StraySpec == Init /\ [][StrayNext]_vars

\* an analysis whose follow-ups stay in the queue while the job is retried
RepublishNext ==
    \/ create_customer({"+111"}, Emails)
    \/ add_interaction({TestDriveText, BothText, HelloText}, {NoNote}, NoFault,
                       MaxInteractions)
    \/ AnalyzeWorker(BOOLEAN, {0, 1, 2})
    \/ EmailWorker(NoFault)
    \/ FollowupWorker(NoFault)

RepublishSpec == Init /\ [][RepublishNext]_vars

\* lead scoring next to the customers API: scoring requests on any text, a
\* PUT that sets the tier by hand, database failures before and after the
\* commit of a run
DomainNext ==
    \/ create_customer({"+111"}, Emails)
    \/ manually_score_lead({1, 2}, {UrgentText, JustLookingText, HelloText, EmptyText})
    \/ update_customer({1}, {CustomerUpdate({"customer_type"}, NULL, NULL, "Prospect")})
    \/ ScoreLeadWorker(BOOLEAN)
    \/ \E i \in 1..QueueCap : ScoreLeadRefreshFault(i)

DomainSpec == Init /\ [][DomainNext]_vars

\* the markers of two calls: call-starts, call-ends, outages of the store,
\* and time that does not stop
TtlMsgs ==
    {Msg(ty, Call(c, AbsentParty), NoId, AbsentParty, AbsentHolder, AbsentT,
         AbsentHolder) : ty \in {"call-start", "call-end"}, c \in CallIds}

TtlNext ==
    \/ Webhook(ObjBodies(TtlMsgs), NoFault)
    \/ RedisFlip
    \/ Tick

TtlSpec == Init /\ [][TtlNext]_vars

FairTtlSpec == TtlSpec /\ WF_vars(Tick)

\* lead scoring of one customer by several worker processes at once
ConcurrentNext ==
    \/ manually_score_lead({1}, {UrgentText, JustLookingText})
    \/ create_customer({"+111"}, Emails)
    \/ \E i \in 1..QueueCap : ScoreLeadBegin(i)
    \/ \E k \in 1..MaxWorkers : ScoreLeadCommit(k)

ConcurrentSpec == Init /\ [][ConcurrentNext]_vars

----------------------------------------------------------------------------
(* Vocabulary of the properties                                            *)

\* the webhook request handled by the step just taken
Req == last.body.message
WebhookDone == last.op = "webhook"
CallStartDone == WebhookDone /\ ReachesCallStart(last.body)
CallEndDone == WebhookDone /\ ReachesCallEnd(last.body)

\* the text found at a payload location, "" when missing, null or not a dict
TextAt(tv) == IF tv.k = "str" THEN tv.s ELSE EmptyText
TextIn(holder) == IF holder.k = "obj" THEN TextAt(holder.transcript) ELSE EmptyText

\* the first non-empty text of a list of texts, "" when there is none
FirstNonEmpty(texts) ==
    IF \E i \in DOMAIN texts : texts[i] # EmptyText
    THEN texts[CHOOSE i \in DOMAIN texts :
                  /\ texts[i] # EmptyText
                  /\ \A j \in 1..(i - 1) : texts[j] = EmptyText]
    ELSE EmptyText

\* the customers holding a phone number
Holding(rows, n) == {i \in DOMAIN rows : rows[i].phone_number = n}

\* the marker of a call is there
Active(id) == markers[<<"call_active_", id>>] > 0

\* the call id a call-end request names
EndedId(m) == IF m.call.id # NoId THEN m.call.id ELSE m.id

----------------------------------------------------------------------------
(* C1: every webhook request whose body is JSON with a non-empty message   *)
(* object, other than a call-start without a call id, is answered 200      *)
(* whatever fails inside (database, marker store, broker, a null "call" or *)
(* "customer").                                                            *)
C1_AlwaysAcknowledged ==
    (/\ WebhookDone
     /\ IsMessage(last.body)
     /\ ~(Req.type = "call-start" /\ Req.call.id = NoId))
    => last.status = 200

(* C2: an unparseable body is answered 400, a parseable body without a     *)
(* non-empty message wrapper 400, an empty body 200, and none of the three *)
(* changes a marker, a Customer row or the queue.                          *)
C2_Envelope ==
    [][(/\ last'.op = "webhook"
        /\ \/ last'.body.k \in {"empty", "badjson", "nonobject"}
           \/ last'.body.k = "object" /\ last'.body.mk \in {"absent", "falsy"})
       => /\ last'.status = IF last'.body.k = "empty" THEN 200 ELSE 400
          /\ UNCHANGED <<markers, customers, interactions, jobs, running, files, documents>>]_vars

\* the text of the score_lead job the step queued, "" when it queued none
ScoredText == IF jobs = << >> THEN EmptyText ELSE jobs[Len(jobs)].text

\* a call-end for a known customer has just been handled
KnownCallEnd == CallEndDone /\ Holding(customers, Req.customer.number) # {}

(* C3 as claimed: the transcript used on a call-end is the first non-empty *)
(* of the top-level transcript, analysis.transcript, artifact.transcript.  *)
C3_ClaimedOrder ==
    [][(KnownCallEnd' /\ Len(jobs') = Len(jobs) + 1)
       => ScoredText' = FirstNonEmpty(<<TextAt(Req.transcript)', TextIn(Req.analysis)',
                                       TextIn(Req.artifact)'>>)]_vars

(* C3 as amended: on a call-end that is handled to the end, the transcript *)
(* used is the first non-empty of artifact.transcript, the top-level       *)
(* transcript, analysis.transcript, in this order; it is empty, and        *)
(* nothing is scored, only when all three are empty or absent.             *)
C3_ExtractionOrder ==
    [][KnownCallEnd'
       => LET used == FirstNonEmpty(<<TextIn(Req.artifact)', TextAt(Req.transcript)',
                                      TextIn(Req.analysis)'>>)
          IN  IF used = EmptyText THEN jobs' = jobs
              ELSE Len(jobs') = Len(jobs) + 1 /\ ScoredText' = used]_vars

\* artifact and top level both hold a text, they differ, the artifact's was scored
C3_Witness ==
    /\ KnownCallEnd
    /\ Req.artifact = Holder(Str(HelloText))
    /\ Req.transcript = Str(TestDriveText)
    /\ ScoredText = HelloText

(* C4: a call-end with a phone number creates no row when a customer holds *)
(* the number and queues the job for that customer; when none holds it,    *)
(* exactly one row with the number and tier 'Prospect' is added, and any   *)
(* job queued refers to it.                                                *)
C4_ResolveOrCreate ==
    [][(CallEndDone' /\ Req.customer.number' # NoNumber /\ ~last'.dbFault)
       => LET n == Req.customer.number'
              queued == SubSeq(jobs', Len(jobs) + 1, Len(jobs'))
          IN  IF Holding(customers, n) # {}
              THEN /\ customers' = customers
                   /\ \A i \in DOMAIN queued :
                         queued[i].customer_id \in
                            {customers[j].customer_id : j \in Holding(customers, n)}
              ELSE /\ Len(customers') = Len(customers) + 1
                   /\ SubSeq(customers', 1, Len(customers)) = customers
                   /\ customers'[Len(customers')].phone_number = n
                   /\ customers'[Len(customers')].customer_type = "Prospect"
                   /\ \A i \in DOMAIN queued :
                         queued[i].customer_id = customers'[Len(customers')].customer_id
         ]_vars

(* C5: a call-end with a phone number and a non-empty transcript adds      *)
(* exactly one Interaction with channel Phone, the transcript as content,  *)
(* owned by the customer; stated here for a number a customer holds.       *)
C5_InteractionLogged ==
    [][(KnownCallEnd' /\ ExtractTranscript(Req').s # EmptyText /\ ~last'.dbFault)
       => /\ Len(interactions') = Len(interactions) + 1
          /\ SubSeq(interactions', 1, Len(interactions)) = interactions
          /\ LET row == interactions'[Len(interactions')]
             IN  /\ row.channel = "Phone"
                 /\ row.content = ExtractTranscript(Req').s
                 /\ \E j \in Holding(customers', Req.customer.number') :
                       row.customer_id = customers'[j].customer_id]_vars

\* scenario A has happened: call-start for c1, then its call-end with a
\* test-drive transcript and the number of a known customer
ScenarioA ==
    /\ KnownCallEnd
    /\ last.body = Body("object", "obj", BaseMsg)
    /\ "start<end" \in calls["c1"]
    /\ InList("test_drive", extract_key_intents(ExtractTranscript(Req).s))

FollowupQueued(n, followup_type) ==
    \E i \in DOMAIN jobs, j \in Holding(customers, n) :
        /\ jobs[i].name = "schedule_followup_task"
        /\ jobs[i].customer_id = customers[j].customer_id
        /\ jobs[i].followup_type = followup_type

(* C6: after scenario A, with the workers running fairly, eventually       *)
(* schedule_followup(c, "test_drive_confirmation") is queued and the       *)
(* marker of the call is gone.                                             *)
C6_ScenarioA ==
    ScenarioA ~> (FollowupQueued("+111", "test_drive_confirmation") /\ ~Active("c1"))

C8_CallEndCleanup ==
    [][CallEndDone'
       => LET m == Req'
              n == m.customer.number
              scored == /\ n # NoNumber
                        /\ Holding(customers', n) # {}
                        /\ ~last'.dbFault
                        /\ ~last'.brokerFault
                        /\ FirstNonEmpty(<<TextIn(m.artifact), TextAt(m.transcript),
                                           TextIn(m.analysis)>>) # EmptyText
          IN  /\ (redis_client /\ redisUp /\ EndedId(m) # NoId)
                 => markers'[<<"call_active_", EndedId(m)>>] = 0
              /\ \/ customers' = customers
                 \/ /\ n # NoNumber /\ Holding(customers, n) = {}
                    /\ customers' = Append(customers, customers'[Len(customers')])
                    /\ customers'[Len(customers')].phone_number = n
              /\ Len(jobs') = Len(jobs) + (IF scored THEN 1 ELSE 0)]_vars

\* a call-end for c1 after its call-start, whose customer lookup failed,
\* has left no marker
C8_Witness ==
    /\ CallEndDone
    /\ EndedId(Req) = "c1"
    /\ "start<end" \in calls["c1"]
    /\ last.dbFault
    /\ redis_client /\ redisUp
    /\ ~Active("c1")

(* C9 as claimed: once the call-end of an id has been processed, the id    *)
(* never has an active marker again.                                       *)
C9_NeverActiveAgain ==
    \A id \in CallIds : "end" \in calls[id] => ~Active(id)

(* C9 as amended: per call id the marker becomes active only by a          *)
(* call-start for that id and ceases only by a call-end for that id or by  *)
(* expiry; a call-start processed after the call-end makes the id active   *)
(* again until the next call-end or expiry.                                *)
C9_MarkerLifecycle ==
    [][\A id \in CallIds :
          /\ (~Active(id) /\ Active(id)') => (CallStartDone' /\ Req.call.id' = id)
          /\ (Active(id) /\ ~Active(id)')
             => \/ CallEndDone' /\ EndedId(Req') = id
                \/ last'.op = "tick"
          /\ (CallStartDone' /\ Req.call.id' = id /\ redis_client /\ redisUp)
             => Active(id)']_vars

\* a call-start after the call-end of the same id: the id is active again
C9_Witness ==
    /\ CallStartDone
    /\ Req.call.id = "c1"
    /\ "end" \in calls["c1"]
    /\ Active("c1")

(* C10: a webhook whose type is none of call-start, call-end,              *)
(* end-of-call-report is answered 200 and changes no marker, no Customer   *)
(* row and no queue entry.                                                 *)
C10_UnknownIgnored ==
    [][(/\ last'.op = "webhook"
        /\ IsMessage(last'.body)
        /\ Req.type' \notin {"call-start", "call-end", "end-of-call-report"})
       => /\ last'.status = 200
          /\ UNCHANGED <<markers, customers, interactions, jobs, running, files, documents>>]_vars

\* a status-update was acknowledged while a marker, a customer and a job exist
C10_Witness ==
    /\ WebhookDone
    /\ IsMessage(last.body)
    /\ Req.type = "status-update"
    /\ last.status = 200
    /\ Active("c1")
    /\ customers # << >>
    /\ jobs # << >>

----------------------------------------------------------------------------
(* The jobs of workflow/tasks.py                                           *)

\* the step just taken ran the body of score_lead_task
ScoreRun == last.op = "score_lead_task"

\* C11: a run of score_lead_task that does not find its customer changes no
\* customer row; while retries < max_retries it ends in RETRY having published
\* exactly one message (the job again, retries + 1), so that one enqueued job
\* is run at most 1 + max_retries = 4 times; with retries = max_retries it
\* fails terminally and publishes nothing.
C11_RetryBound ==
    [][(ScoreRun' /\ FindById(customers, last'.job.customer_id) = 0) =>
          /\ customers' = customers
          /\ last'.job.retries <= SCORE_MAX_RETRIES
          /\ IF last'.job.retries < SCORE_MAX_RETRIES
             THEN /\ last'.result = "RETRY"
                  /\ Len(jobs') = Len(jobs)
                  /\ jobs'[Len(jobs')] = Retried(last'.job, jobs'[Len(jobs')].countdown)
             ELSE /\ last'.result = "FAILURE"
                  /\ Len(jobs') = Len(jobs) - 1]_vars

LeadTiers == {"Hot Lead", "Warm Lead", "Cold Lead"}

\* a score_lead message for customer c and this text, published by a retry
RetryQueued(c, text) ==
    \E i \in DOMAIN jobs :
        /\ jobs[i].name = "score_lead_task"
        /\ jobs[i].customer_id = c /\ jobs[i].text = text
        /\ jobs[i].retries > 0

\* the step just taken is a retried run of score_lead(c, text) that succeeded,
\* wrote the tier of the text and returned {previous_status, new_status}
RetrySucceeded(c, text) ==
    /\ ScoreRun /\ last.result = "SUCCESS"
    /\ last.job.customer_id = c /\ last.job.text = text /\ last.job.retries > 0
    /\ customers[c].customer_type = score_lead_from_text(text)
    /\ last.new_status = score_lead_from_text(text)
    /\ last.previous_status \in LeadTiers \cup {"Prospect"}

\* C12: a run of score_lead(c, text) that does not find c while retries are
\* left ends in RETRY, not FAILURE, and leaves the job in the queue with one
\* more retry counted; once c is visible while such a retry is queued, the
\* job eventually succeeds, c's tier is score_lead_from_text(text) and the
\* job returns previous_status and new_status.
C12_ScenarioC ==
    /\ [][(/\ ScoreRun'
           /\ FindById(customers, last'.job.customer_id) = 0
           /\ last'.job.retries < SCORE_MAX_RETRIES) =>
              /\ last'.result = "RETRY"
              /\ \E i \in DOMAIN jobs' :
                    jobs'[i] = Retried(last'.job, jobs'[i].countdown)]_vars
    /\ (FindById(customers, 1) # 0 /\ RetryQueued(1, UrgentText))
          ~> RetrySucceeded(1, UrgentText)

C12_Witness ==
    /\ RetrySucceeded(1, UrgentText)
    /\ last.previous_status = "Prospect"
    /\ customers[1].customer_type = "Hot Lead"

ScoreCommitted == ScoreRun /\ last.result \in {"SUCCESS", "FAILURE"}

\* C14 as claimed: a run of score_lead(c, t) that overlaps other runs for c
\* succeeds, returns the tier of t as new_status, and once it has committed
\* the tier of c is the tier of t (the job that commits last wins).
C14_LastCommitWins ==
    [][(ScoreCommitted' /\ running' # running) =>
          /\ last'.result = "SUCCESS"
          /\ last'.new_status = score_lead_from_text(last'.job.text)
          /\ customers'[last'.job.customer_id].customer_type = last'.new_status]_vars

\* C14: overlapping runs of score_lead for one customer never fail or wait
\* for each other, each returns the tier of its own text as new_status, and
\* the tier of the customer is always that of the last run that wrote: a
\* commit leaves either its own tier or, when its tier equals the tier it had
\* loaded and another run wrote in between, the tier that other run wrote.
C14_LastWriteWins ==
    /\ [](\A k \in DOMAIN running : ENABLED ScoreLeadCommit(k))
    /\ [][(ScoreCommitted' /\ running' # running) =>
             LET c == last'.job.customer_id
                 own == score_lead_from_text(last'.job.text)
             IN  /\ last'.result = "SUCCESS"
                 /\ last'.new_status = own
                 /\ \/ customers'[c].customer_type = own
                    \/ /\ customers'[c].customer_type = customers[c].customer_type
                       /\ last'.previous_status = own
                       /\ customers[c].customer_type # last'.previous_status
                       /\ customers[c].customer_type \in LeadTiers
                 /\ customers' = [customers EXCEPT
                                     ![c].customer_type = customers'[c].customer_type]]_vars

\* a run committed last and the row holds the tier of the other run
C14_Witness ==
    /\ ScoreCommitted /\ last.result = "SUCCESS"
    /\ last.previous_status = "Hot Lead" /\ last.new_status = "Hot Lead"
    /\ customers[last.job.customer_id].customer_type = "Cold Lead"

\* the step just taken ran the body of analyze_interaction_task
AnalyzeRun == last.op = "analyze_interaction_task"

\* ... and got as far as the write of lines 150-155: no database failure, the
\* row of the job exists and has content
AnalysisWrote ==
    /\ AnalyzeRun /\ ~last.dbFault
    /\ last.job.interaction_id \in DOMAIN interactions
    /\ interactions[last.job.interaction_id].content # EmptyText

\* the derived fields of a row
Derived(row) == <<row.summary, row.sentiment, row.outcome>>

\* C15 as claimed: the analysis task writes the derived fields of an
\* Interaction at most once: a run that reaches the write finds a row that no
\* run has written before.
C15_WrittenAtMostOnce ==
    [][AnalysisWrote' => interactions[last'.job.interaction_id].sentiment = NULL]_vars

\* C15: the derived fields are changed by nothing but a run of the analysis
\* task on a row that no run has written yet; once a run has written them
\* they keep their values, although every later run repeats the write.
C15_ImmutableOnceWritten ==
    [][\A n \in DOMAIN interactions :
          /\ n \in DOMAIN interactions'
          /\ interactions[n].sentiment # NULL
                => Derived(interactions'[n]) = Derived(interactions[n])
          /\ Derived(interactions'[n]) # Derived(interactions[n])
                => AnalysisWrote' /\ last'.job.interaction_id = n]_vars

\* a retried run has repeated the write on a row that was written before
C15_Witness ==
    /\ AnalysisWrote /\ last.result = "SUCCESS"
    /\ last.job.retries > 0
    /\ interactions[last.job.interaction_id].outcome = "Test drive interest expressed"

\* C16: a run of analyze_interaction that writes a row with content C leaves
\* sentiment = analyze_conversation_sentiment(C), outcome =
\* determine_outcome_from_intents(extract_key_intents(C)) and the summary of
\* C; on a row that was analysed before, the three fields keep their values.
C16_RoundTrip ==
    [][AnalysisWrote' =>
          LET n == last'.job.interaction_id
              C == interactions[n].content
          IN  /\ interactions'[n].content = C
              /\ interactions'[n].sentiment = analyze_conversation_sentiment(C)
              /\ interactions'[n].outcome =
                     determine_outcome_from_intents(extract_key_intents(C))
              /\ interactions'[n].summary = generate_interaction_summary(C)
              /\ interactions[n].sentiment # NULL
                    => Derived(interactions'[n]) = Derived(interactions[n])]_vars

C16_Witness ==
    /\ AnalysisWrote /\ last.result = "SUCCESS"
    /\ interactions[last.job.interaction_id].content = GreatPricingText
    /\ interactions[last.job.interaction_id].sentiment = "Positive"
    /\ interactions[last.job.interaction_id].outcome = "Pricing inquiry"

\* the schedule_followup messages in a queue
Followups(q) == SelectSeq(q, LAMBDA job : job.name = "schedule_followup_task")

\* C17: a successful run of analyze_interaction on a row with content
\* publishes schedule_followup(customer, "test_drive_confirmation") iff
\* test_drive is a detected intent, schedule_followup(customer,
\* "send_pricing") iff pricing is one, and nothing else; and whenever a run
\* publishes a follow-up the analysis is committed: a run whose commit fails
\* publishes none.
C17_FollowupsAfterCommit ==
    [][AnalyzeRun' =>
          LET n == last'.job.interaction_id
              intents == extract_key_intents(interactions[n].content)
              customer == interactions[n].customer_id
              expected ==
                  (IF \E k \in DOMAIN intents : intents[k] = "test_drive"
                   THEN <<[FollowupJob(customer, "") EXCEPT
                             !.followup_type = "test_drive_confirmation"]>>
                   ELSE << >>)
                  \o (IF \E k \in DOMAIN intents : intents[k] = "pricing"
                      THEN <<[FollowupJob(customer, "") EXCEPT
                                !.followup_type = "send_pricing"]>>
                      ELSE << >>)
          IN  /\ (last'.result = "SUCCESS" /\ AnalysisWrote') =>
                    \E i \in DOMAIN jobs :
                        /\ jobs[i] = last'.job
                        /\ jobs' = Without(jobs, i) \o expected
              /\ Len(Followups(jobs')) > Len(Followups(jobs)) =>
                    /\ ~last'.dbFault
                    /\ interactions'[n].sentiment # NULL
                    /\ interactions'[n].outcome # NULL]_vars

C17_Witness ==
    /\ AnalysisWrote /\ last.result = "SUCCESS"
    /\ interactions[last.job.interaction_id].content = BothText
    /\ Len(jobs) >= 2
    /\ jobs[Len(jobs) - 1].followup_type = "test_drive_confirmation"
    /\ jobs[Len(jobs)].followup_type = "send_pricing"

\* the step just taken ran schedule_followup_task
FollowupRun == last.op = "schedule_followup_task"

\* C18: a run of schedule_followup(c, type) publishes exactly one
\* send_followup_email message, with the recipient's address and countdown
\* 7200 / 3600 / 1800 / 86400 seconds for test_drive_confirmation /
\* send_pricing / post_call_thankyou / nurture_warm_lead, iff c exists, the
\* type is one of these four, c has an email and neither the database nor the
\* broker fails; otherwise it publishes nothing; it always returns normally
\* and is never published again.
C18_FollowupEmail ==
    [][FollowupRun' =>
          LET job == last'.job
              c == job.customer_id
              exists == c \in DOMAIN customers /\ customers[c].customer_id = c
              seconds == CASE job.followup_type = "test_drive_confirmation" -> 7200
                           [] job.followup_type = "send_pricing" -> 3600
                           [] job.followup_type = "post_call_thankyou" -> 1800
                           [] job.followup_type = "nurture_warm_lead" -> 86400
                           [] OTHER -> -1
              due == /\ exists /\ seconds > 0 /\ customers[c].email # NULL
                     /\ ~last'.dbFault /\ ~last'.brokerFault
          IN  /\ last'.result = "SUCCESS"
              /\ \E i \in DOMAIN jobs :
                    /\ jobs[i] = job
                    /\ IF due
                       THEN /\ Len(jobs') = Len(jobs)
                            /\ SubSeq(jobs', 1, Len(jobs) - 1) = Without(jobs, i)
                            /\ jobs'[Len(jobs')].name = "send_followup_email_task"
                            /\ jobs'[Len(jobs')].email = customers[c].email
                            /\ jobs'[Len(jobs')].customer_id = c
                            /\ jobs'[Len(jobs')].countdown = seconds
                       ELSE jobs' = Without(jobs, i)]_vars

C18_Witness ==
    /\ FollowupRun
    /\ last.job.followup_type = "post_call_thankyou"
    /\ Len(jobs) > 0
    /\ jobs[Len(jobs)].name = "send_followup_email_task"
    /\ jobs[Len(jobs)].countdown = 1800

\* the step just taken ran one of the two email jobs and the mail server
\* failed (a follow-up for a customer who is gone ends before it sends)
EmailSendFailed ==
    /\ last.op \in {"send_followup_email_task", "send_invoice_email_task"}
    /\ last.brokerFault
    /\ last.op = "send_followup_email_task" => FindById(customers, last.job.customer_id) # 0

\* C19: when the mail server fails inside send_followup_email or
\* send_invoice_email the job ends in FAILURE and is retried: the same
\* message is in the queue again, one more retry counted.
C19_EmailRetried ==
    [][EmailSendFailed' =>
          /\ last'.result = "FAILURE"
          /\ \E i \in DOMAIN jobs' :
                jobs'[i] = Retried(last'.job, jobs'[i].countdown)]_vars

\* the step just taken ran generate_invoice_task
InvoiceRun == last.op = "generate_invoice_task"

\* C20: in generate_invoice the PDF is rendered, then the Document row is
\* committed, then send_invoice_email is published: every Document row has
\* its file, every queued send_invoice_email has a committed Document row
\* with its path, a run that fails before the commit publishes nothing, and a
\* successful run leaves file, row and message.
C20_InvoiceOrder ==
    /\ [](/\ documents \subseteq files
          /\ \A i \in DOMAIN jobs :
                jobs[i].name = "send_invoice_email_task"
                    => jobs[i].attachment_path \in documents)
    /\ [][InvoiceRun' =>
             LET path == <<"generated_documents", "INV", last'.job.customer_id>>
             IN  /\ Len(jobs') = Len(jobs) =>
                       /\ last'.result = "SUCCESS"
                       /\ path \in files' /\ path \in documents'
                       /\ path \notin documents
                       /\ jobs'[Len(jobs')].name = "send_invoice_email_task"
                       /\ jobs'[Len(jobs')].attachment_path = path
                       /\ jobs'[Len(jobs')].email = customers[last'.job.customer_id].email
                 /\ last'.result = "SUCCESS" => Len(jobs') = Len(jobs)
                 /\ Len(jobs') \in {Len(jobs), Len(jobs) - 1}
                 /\ documents' # documents => path \in files']_vars

C20_Witness ==
    /\ InvoiceRun /\ last.result = "SUCCESS"
    /\ jobs[Len(jobs)].name = "send_invoice_email_task"
    /\ jobs[Len(jobs)].attachment_path \in documents
    /\ jobs[Len(jobs)].attachment_path \in files

\* C21: a generate_invoice run that ends in failure (customer or vehicle
\* missing, render failure, customer without email, enqueue failure) has
\* added no Document row and has published no send_invoice_email.
C21_FailureAtomic ==
    [][(InvoiceRun' /\ last'.result = "FAILURE") =>
          /\ documents' = documents
          /\ Len(jobs') = Len(jobs) - 1]_vars

NurtureRun == last.op = "daily_lead_nurture_task"

\* the customer's tier is Warm Lead and the customer has an interaction, the
\* most recent of which is more than three days old
StaleWarm(c) ==
    /\ c \in DOMAIN customers
    /\ customers[c].customer_type = "Warm Lead"
    /\ \E n \in DOMAIN interactions : interactions[n].customer_id = c
    /\ \A n \in DOMAIN interactions :
          interactions[n].customer_id = c => interactions[n].age > 3

\* C22 as claimed: a completed run of daily_nurture publishes exactly one
\* schedule_followup(c, "nurture_warm_lead") for every Warm Lead customer whose
\* most recent interaction is older than 3 days, and none for anyone else.
C22_EveryStaleWarm ==
    [][(NurtureRun' /\ last'.result = "SUCCESS") =>
          \A c \in 1..MaxCustomers :
              Cardinality({k \in Len(jobs)..Len(jobs') :
                              jobs'[k] = FollowupJob(c, "nurture_warm_lead")})
                  = IF StaleWarm(c) THEN 1 ELSE 0]_vars

\* C22, amended: a completed run publishes exactly one
\* schedule_followup(c, "nurture_warm_lead") for every Warm Lead customer who
\* has an email address and whose most recent interaction is older than 3
\* days, and nothing else; a run that fails has published at most one for
\* each such customer and nothing else.
C22_StaleWarmWithEmail ==
    [][NurtureRun' =>
          LET new == Len(jobs)..Len(jobs')
              due(c) == StaleWarm(c) /\ customers[c].email # NULL
              sent(c) == Cardinality({k \in new :
                              jobs'[k] = FollowupJob(c, "nurture_warm_lead")})
          IN  /\ SubSeq(jobs', 1, Len(jobs) - 1) \in {Without(jobs, i) : i \in DOMAIN jobs}
              /\ \A k \in new : \E c \in 1..MaxCustomers :
                    jobs'[k] = FollowupJob(c, "nurture_warm_lead")
              /\ \A c \in 1..MaxCustomers :
                    /\ sent(c) <= (IF due(c) THEN 1 ELSE 0)
                    /\ last'.result = "SUCCESS" /\ due(c) => sent(c) = 1]_vars

\* a completed run that nurtured a customer with an older and a newer
\* interaction, while another stale Warm Lead has no address
C22_Witness ==
    /\ NurtureRun /\ last.result = "SUCCESS" /\ jobs # << >>
    /\ \E c \in DOMAIN customers :
          /\ jobs[Len(jobs)] = FollowupJob(c, "nurture_warm_lead")
          /\ \E n, m \in DOMAIN interactions :
                /\ interactions[n].customer_id = c /\ interactions[m].customer_id = c
                /\ interactions[n].age # interactions[m].age

\* the step just taken ran a queued job
JobRun ==
    last.op \in {"score_lead_task", "analyze_interaction_task", "schedule_followup_task",
                 "send_followup_email_task", "send_invoice_email_task",
                 "generate_invoice_task", "daily_lead_nurture_task"}

\* the retry count the task declares (tasks.py:56, tasks.py:111; the other
\* tasks declare none)
MaxRetries(name) ==
    CASE name = "score_lead_task" -> SCORE_MAX_RETRIES
      [] name = "analyze_interaction_task" -> ANALYZE_MAX_RETRIES
      [] OTHER -> 0

\* the retries of this job that are in the queue q
Retries(q, job) ==
    Cardinality({k \in DOMAIN q : q[k] = Retried(job, q[k].countdown)})

\* C23: no job is retried for ever and one enqueue causes at most
\* max_retries + 1 executions: an execution never runs with more than
\* max_retries retries counted, it puts at most one retry of its job in the
\* queue, and none when the retries are used up.
C23_BoundedExecutions ==
    [][JobRun' =>
          /\ last'.job.retries <= MaxRetries(last'.job.name)
          /\ Retries(jobs', last'.job) - Retries(jobs, last'.job)
                <= (IF last'.job.retries < MaxRetries(last'.job.name) THEN 1 ELSE 0)]_vars

\* C24: no two Customer rows have the same phone number, however call-end
\* webhooks, create-customer requests and phone number updates interleave; a
\* create-customer commit for a number that a row already holds answers 500
\* and changes no row, and a step that adds a row leaves the rows that
\* existed as they were.
C24_PhoneUnique ==
    /\ [](\A i, j \in DOMAIN customers :
             (i # j /\ customers[i].phone_number # NULL)
                => customers[i].phone_number # customers[j].phone_number)
    /\ [][\A k \in DOMAIN running :
             (/\ running' = Without(running, k)
              /\ \E i \in DOMAIN customers :
                    customers[i].phone_number = running[k].vals.phone_number)
                => (customers' = customers /\ last'.status = 500)]_vars
    /\ [][Len(customers') > Len(customers)
             => SubSeq(customers', 1, Len(customers)) = customers]_vars

\* a create-customer request lost the race for its number: one row, without
\* an email address, and the commit of the second request answered 500
C24_Witness ==
    /\ last.op = "create_customer" /\ last.status = 500
    /\ Len(customers) = 1
    /\ customers[1].email = NULL
    /\ customers[1].phone_number = "+111"

\* the step just taken answered an assistant-turn event
AssistantTurnDone == WebhookDone /\ IsMessage(last.body) /\ Req.type = "assistant-request"

\* C25: an assistant-turn event for a call whose marker is there is answered
\* 200 and leaves the user turn and the reply in what the service stores for
\* that call; with the marker store unavailable it is still answered 200.
C25_TurnAppended ==
    [][AssistantTurnDone' =>
          /\ last'.status = 200
          /\ (redis_client /\ redisUp /\ Active(Req.call.id'))
                => <<markers, customers, interactions, jobs, running, files,
                     documents>>' #
                   <<markers, customers, interactions, jobs, running, files, documents>>]_vars

\* some keyword of the list is a substring of the lower-cased text
AnyOf(keywords, text) ==
    \E i \in DOMAIN text : Fragments(Lower(text[i])) \cap keywords # {}

\* C26: score_lead_from_text gives Cold Lead for the empty text; for any other
\* text Hot Lead when a hot keyword occurs, whatever else occurs, else Warm
\* Lead when a warm keyword occurs, else Cold Lead when a cold keyword occurs,
\* else Warm Lead; the result is always one of the three tiers.
C26_PriorityClassifier ==
    last.op = "score_lead_from_text" =>
        LET text == last.job.text
            hot == AnyOf(HOT_KEYWORDS, text)
            warm == AnyOf(WARM_KEYWORDS, text)
            cold == AnyOf(COLD_KEYWORDS, text)
        IN  /\ last.result \in {"Hot Lead", "Warm Lead", "Cold Lead"}
            /\ text = << >> => last.result = "Cold Lead"
            /\ (text # << >> /\ hot) => last.result = "Hot Lead"
            /\ (text # << >> /\ ~hot /\ warm) => last.result = "Warm Lead"
            /\ (text # << >> /\ ~hot /\ ~warm /\ cold) => last.result = "Cold Lead"
            /\ (text # << >> /\ ~hot /\ ~warm /\ ~cold) => last.result = "Warm Lead"

\* a text with a warm keyword followed by a hot keyword was scored Hot Lead
C26_Witness ==
    /\ last.op = "score_lead_from_text"
    /\ last.job.text = <<"other options", "schedule test drive">>
    /\ last.result = "Hot Lead"

\* the keywords of the list that are substrings of the lower-cased text
Found(keywords, text) ==
    {kw \in keywords : \E i \in DOMAIN text : kw \in Fragments(Lower(text[i]))}

\* C27: analyze_conversation_sentiment returns Positive, Negative or Neutral:
\* Positive exactly when more positive than negative keywords occur, Negative
\* exactly when more negative than positive keywords occur, Neutral otherwise
\* (ties, neither kind, the empty text); the result is decided by the text
\* alone, whatever was computed before.
C27_Sentiment ==
    last.op = "analyze_conversation_sentiment" =>
        LET positive_count == Cardinality(Found(POSITIVE_KEYWORDS, last.job.text))
            negative_count == Cardinality(Found(NEGATIVE_KEYWORDS, last.job.text))
        IN  /\ last.result \in {"Positive", "Negative", "Neutral"}
            /\ last.result = "Positive"
                  <=> (positive_count > negative_count /\ positive_count > 0)
            /\ last.result = "Negative"
                  <=> (negative_count > positive_count /\ negative_count > 0)
            /\ (positive_count = negative_count \/ last.job.text = << >>)
                  => last.result = "Neutral"

\* one positive and one negative keyword: a tie, Neutral
C27_Witness ==
    /\ last.op = "analyze_conversation_sentiment"
    /\ last.job.text = <<"great", "expensive">>
    /\ last.result = "Neutral"

\* the place of an intent category in the table
Rank(intent) == CHOOSE k \in DOMAIN INTENT_ORDER : INTENT_ORDER[k] = intent

\* C28: extract_key_intents returns each of the 8 categories at most once, a
\* category exactly when one of its keywords occurs in the text, in the order
\* of the table whatever the order of the keywords in the text; the empty
\* text gives the empty list.
C28_Intents ==
    last.op = "extract_key_intents" =>
        LET text == last.job.text
            intents == last.result
        IN  /\ \A i, j \in DOMAIN intents : i < j => Rank(intents[i]) < Rank(intents[j])
            /\ \A k \in DOMAIN INTENT_ORDER :
                  (\E i \in DOMAIN intents : intents[i] = INTENT_ORDER[k])
                     <=> Found(INTENT_KEYWORDS(INTENT_ORDER[k]), text) # {}
            /\ \A i \in DOMAIN intents : \E k \in DOMAIN INTENT_ORDER :
                  intents[i] = INTENT_ORDER[k]
            /\ Len(INTENT_ORDER) = 8
            /\ text = << >> => intents = << >>

\* the service keyword comes before the pricing keyword in the text: pricing
\* is listed before service
C28_Witness ==
    /\ last.op = "extract_key_intents"
    /\ last.job.text \in {<<"service", "pricing">>, <<"service", "how much?">>}
    /\ last.result = <<"pricing", "service">>

\* C29: calculate_engagement_score(text) is an integer in 0..100, 0 for the
\* empty text and otherwise min(100, length bucket (30 above 100 words, 20
\* above 50, else 10) + min(15 x detected intents, 40) + sentiment bonus
\* (Positive 20, Neutral 10, Negative 0) + min(5 x question marks, 10)).
C29_Engagement ==
    last.op = "calculate_engagement_score" =>
        LET text == last.job.text
            words == WordCount(text)
            marks == QuestionCount(text)
            detected == {k \in DOMAIN INTENT_ORDER :
                            Found(INTENT_KEYWORDS(INTENT_ORDER[k]), text) # {}}
            positive_count == Cardinality(Found(POSITIVE_KEYWORDS, text))
            negative_count == Cardinality(Found(NEGATIVE_KEYWORDS, text))
            bucket == CASE words > 100 -> 30 [] words > 50 /\ words <= 100 -> 20
                        [] OTHER -> 10
            intent_points == IF 15 * Cardinality(detected) > 40 THEN 40
                             ELSE 15 * Cardinality(detected)
            bonus == CASE positive_count > negative_count -> 20
                       [] negative_count > positive_count -> 0
                       [] OTHER -> 10
            mark_points == IF 5 * marks > 10 THEN 10 ELSE 5 * marks
            sum == bucket + intent_points + bonus + mark_points
        IN  /\ last.result \in 0..100
            /\ text = << >> => last.result = 0
            /\ text # << >> => last.result = (IF sum > 100 THEN 100 ELSE sum)

\* four intents count 40, not 60: 10 for the length, 40, 10 for Neutral
C29_Witness ==
    /\ last.op = "calculate_engagement_score"
    /\ last.job.text = <<"schedule test drive", "other options">>
    /\ last.result = 60

\* a customer of the input list, by its customer_id
Lead(customer_id) == last.body[customer_id]

\* C30: prioritize_leads returns every customer of the input exactly once,
\* with priority_score = engagement_score(last_conversation) x the multiplier
\* of its tier (Hot 1.5, Warm 1.2, Prospect 1.0, Cold 0.8, any other 1.0), in
\* the order of non-increasing priority_score, customers of equal score in
\* the order of the input.
C30_Prioritize ==
    last.op = "prioritize_leads" =>
        LET out == last.result
            tenths(ty) == IF ty = "Hot Lead" THEN 15 ELSE IF ty = "Warm Lead" THEN 12
                          ELSE IF ty = "Cold Lead" THEN 8 ELSE 10
        IN  /\ Len(out) = Len(last.body)
            /\ \A c \in DOMAIN last.body :
                  Cardinality({k \in DOMAIN out : out[k].customer_id = c}) = 1
            /\ \A k \in DOMAIN out :
                  /\ out[k].customer_id \in DOMAIN last.body
                  /\ out[k].customer_type = Lead(out[k].customer_id).customer_type
                  /\ out[k].last_conversation = Lead(out[k].customer_id).last_conversation
                  /\ out[k].engagement_score =
                        calculate_engagement_score(out[k].last_conversation)
                  /\ out[k].priority_score =
                        out[k].engagement_score * tenths(out[k].customer_type)
            /\ \A k, l \in DOMAIN out :
                  k < l =>
                     /\ out[k].priority_score >= out[l].priority_score
                     /\ out[k].priority_score = out[l].priority_score
                           => out[k].customer_id < out[l].customer_id

\* the Cold customer given first comes last; the Prospect and the Hot Lead
\* behind it have the same score, 30 x 1.0 = 20 x 1.5, and keep their order
C30_Witness ==
    /\ last.op = "prioritize_leads"
    /\ Len(last.body) = 3
    /\ Lead(1).customer_type = "Cold Lead" /\ Lead(1).last_conversation = HelloText
    /\ Lead(2).customer_type = "Prospect" /\ Lead(2).last_conversation = GreatText
    /\ Lead(3).customer_type = "Hot Lead" /\ Lead(3).last_conversation = HelloText
    /\ [k \in 1..3 |-> last.result[k].customer_id] = <<2, 3, 1>>
    /\ last.result[1].priority_score = 300 /\ last.result[2].priority_score = 300

\* the strings recommend_next_action returns
Actions ==
    {"URGENT: Schedule closing meeting within 24 hours",
     "HIGH PRIORITY: Confirm test drive appointment immediately",
     "FOLLOW UP: Contact within 4 hours - hot lead cooling",
     "MONITOR: Prepare for next interaction",
     "Schedule test drive within 48 hours",
     "Send detailed pricing and financing options",
     "Send nurture email with new inventory updates",
     "Continue regular follow-up in 3 days",
     "Send welcome email with showroom invitation",
     "Send comprehensive brochure and schedule call",
     "Add to nurture campaign - weekly updates",
     "Add to quarterly newsletter",
     "Archive - re-engage only if customer initiates contact"}

\* C31: recommend_next_action returns an action string for every snapshot
\* (whatever its tier, known or not, its last conversation and its days
\* since the last contact), and for a Hot Lead the first of purchase_ready,
\* test_drive, staleness (more than 2 days), default that applies decides.
C31_Exhaustive ==
    last.op = "recommend_next_action" =>
        LET intents == extract_key_intents(last.body.last_conversation.s)
        IN  /\ last.result \in Actions
            /\ last.body.customer_type = "Hot Lead" =>
                   last.result =
                       IF InList("purchase_ready", intents)
                       THEN "URGENT: Schedule closing meeting within 24 hours"
                       ELSE IF InList("test_drive", intents)
                       THEN "HIGH PRIORITY: Confirm test drive appointment immediately"
                       ELSE IF last.body.days_since_last_contact > 2
                       THEN "FOLLOW UP: Contact within 4 hours - hot lead cooling"
                       ELSE "MONITOR: Prepare for next interaction"

\* the call-end requests of the run, in flight or done
CallEnds == {k \in DOMAIN running : running[k].op = "call_end"}

\* C32: handle_call_end publishes score_lead(customer_id, transcript) once
\* if it resolved or created a customer and the transcript is not empty
\* (and the broker took the message), and publishes nothing otherwise.  A
\* request has a customer id exactly if its lookup found the row that holds
\* its number or its insert was committed.  The publish comes when the
\* session is closed and the customers are as committed, and the response
\* is given with the job still in the queue.
C32_EnqueueAfterCommit ==
    [][/\ jobs' # jobs => last'.op = "webhook"
       /\ last'.op = "call_end_lookup" =>
              LET request == running'[Len(running')]
                  number == request.body.message.customer.number
              IN  request.customer_id # 0 <=>
                      /\ number # NoNumber
                      /\ ~last'.dbFault
                      /\ \E i \in DOMAIN customers :
                             /\ customers[i].phone_number = number
                             /\ customers[i].customer_id = request.customer_id
       /\ last'.op = "call_end_commit" =>
              \E k \in CallEnds :
                  /\ running[k].pc = "commit" /\ running'[k].pc = "finish"
                  /\ running'[k].customer_id # 0 <=>
                         /\ Len(customers') = Len(customers) + 1
                         /\ customers'[Len(customers')].phone_number =
                                running[k].body.message.customer.number
                         /\ customers'[Len(customers')].customer_id =
                                running'[k].customer_id
       /\ last'.op = "webhook" =>
              \E k \in CallEnds :
                  LET request == running[k]
                      transcript == ExtractTranscript(request.body.message).s
                  IN  /\ request.pc = "finish" /\ running'[k].pc = "done"
                      /\ request.session # "open"
                      /\ customers' = customers
                      /\ last'.status = 200
                      /\ IF request.customer_id # 0 /\ transcript # EmptyText
                            /\ ~last'.brokerFault
                         THEN jobs' = Append(jobs, ScoreLeadJob(request.customer_id,
                                                                transcript, 0, 0))
                         ELSE jobs' = jobs]_vars

\* a call-end of a known customer with a transcript has been answered and
\* its score_lead job is the last of the queue
C32_Witness ==
    /\ last.op = "webhook"
    /\ last.status = 200
    /\ jobs # << >>
    /\ \E k \in CallEnds :
           /\ running[k].pc = "done"
           /\ running[k].body = last.body
           /\ running[k].customer_id # 0
           /\ jobs[Len(jobs)] =
                  ScoreLeadJob(running[k].customer_id,
                               ExtractTranscript(last.body.message).s, 0, 0)

\* C33: handle_call_end reads the caller's number at
\* message.call.customer.number: a call-end with a transcript whose number
\* is only there, and is the number of a customer, is answered with that
\* customer resolved, which shows in the score_lead job queued for it.
C33_NumberFromCall ==
    LET m == last.body.message
    IN  /\ last.op = "webhook"
        /\ m.type = "call-end"
        /\ m.customer = AbsentParty
        /\ FindByPhone(customers, m.call.customer.number) # 0
        => /\ jobs # << >>
           /\ jobs[Len(jobs)] =
                  ScoreLeadJob(customers[FindByPhone(customers,
                                                     m.call.customer.number)].customer_id,
                               ExtractTranscript(m).s, 0, 0)

\* C34: a run of analyze_interaction_task that does not find its
\* interaction writes nothing and publishes no schedule_followup; while
\* retries < max_retries it ends in RETRY having published exactly one
\* message (the job again, retries + 1), so that one enqueued job is run at
\* most 1 + max_retries = 3 times; with retries = max_retries it fails
\* terminally and publishes nothing.
C34_AnalyzeRetryBound ==
    [][(AnalyzeRun' /\ ~last'.dbFault
          /\ last'.job.interaction_id \notin DOMAIN interactions) =>
          /\ interactions' = interactions
          /\ Followups(jobs') = Followups(jobs)
          /\ last'.job.retries <= ANALYZE_MAX_RETRIES
          /\ IF last'.job.retries < ANALYZE_MAX_RETRIES
             THEN /\ last'.result = "RETRY"
                  /\ Len(jobs') = Len(jobs)
                  /\ jobs'[Len(jobs')] = Retried(last'.job, jobs'[Len(jobs')].countdown)
             ELSE /\ last'.result = "FAILURE"
                  /\ Len(jobs') = Len(jobs) - 1]_vars

\* C35: a run of analyze_interaction_task that loads an Interaction whose
\* content is empty or NULL succeeds at once, whatever its retry count: it
\* writes no field of any Interaction, publishes no schedule_followup and
\* no retry; the queue only loses the job.
C35_NoContentNoOp ==
    [][(AnalyzeRun' /\ ~last'.dbFault
          /\ last'.job.interaction_id \in DOMAIN interactions
          /\ interactions[last'.job.interaction_id].content
                \in {EmptyText, NullContent}) =>
          /\ last'.result = "SUCCESS"
          /\ interactions' = interactions
          /\ \E i \in DOMAIN jobs :
                 /\ jobs[i] = last'.job
                 /\ jobs' = Without(jobs, i)]_vars

\* the first attempt on a row whose content is NULL has succeeded
C35_Witness ==
    /\ AnalyzeRun /\ ~last.dbFault
    /\ last.job.retries = 0
    /\ last.job.interaction_id \in DOMAIN interactions
    /\ interactions[last.job.interaction_id].content = NullContent
    /\ interactions[last.job.interaction_id].sentiment = NULL
    /\ last.result = "SUCCESS"

\* C36: a run of schedule_followup_task in which the database or the
\* publish of the email job fails does not end in SUCCESS, and a run for an
\* existing customer with an email address and a known follow-up type that
\* ends in SUCCESS has published the send_followup_email job.
C36_FollowupFailureSurfaces ==
    [][FollowupRun' =>
          LET job == last'.job
              c == job.customer_id
              due == /\ c \in DOMAIN customers /\ customers[c].customer_id = c
                     /\ customers[c].email # NULL
                     /\ job.followup_type \in FollowupTypes
          IN  /\ last'.dbFault => last'.result \in {"FAILURE", "RETRY"}
              /\ (due /\ last'.result = "SUCCESS") =>
                     /\ Len(jobs') = Len(jobs)
                     /\ jobs'[Len(jobs')].name = "send_followup_email_task"
                     /\ jobs'[Len(jobs')].customer_id = c]_vars

\* the queued score_lead jobs for customer c with the given text
Scorings(c, text) ==
    Cardinality({n \in DOMAIN jobs : jobs[n] = ScoreLeadJob(c, text, 0, 0)})

\* C37: when two call-end requests that carry the same number, a number no
\* customer had before (here +222, which only calls bring), and a
\* transcript each have been answered, however their steps interleaved and
\* with no database or broker failure, exactly one Customer row holds the
\* number and a score_lead job for that customer is queued for each of the
\* two transcripts.
C37_NoScoringLost ==
    \A i, j \in CallEnds :
        LET mi == running[i].body.message
            mj == running[j].body.message
            ti == ExtractTranscript(mi).s
            tj == ExtractTranscript(mj).s
            rows == {r \in DOMAIN customers : customers[r].phone_number = "+222"}
        IN  (/\ i < j
             /\ running[i].pc = "done" /\ running[j].pc = "done"
             /\ mi.customer.number = "+222" /\ mj.customer.number = "+222"
             /\ ti # EmptyText /\ tj # EmptyText
             /\ ~running[i].dbFault /\ ~running[j].dbFault
             /\ ~running[i].brokerFault /\ ~running[j].brokerFault)
            => /\ Cardinality(rows) = 1
               /\ \A r \in rows :
                      /\ Scorings(customers[r].customer_id, ti) >= 1
                      /\ Scorings(customers[r].customer_id, tj) >= 1
                      /\ ti = tj => Scorings(customers[r].customer_id, ti) >= 2

\* the queued follow-ups for customer c of the given type
FollowupsOf(q, c, followup_type) ==
    Cardinality({k \in DOMAIN q : /\ q[k].name = "schedule_followup_task"
                                  /\ q[k].customer_id = c
                                  /\ q[k].followup_type = followup_type})

\* C38 as claimed: all attempts and retries of one analyze_interaction job
\* together publish at most one schedule_followup of each type.  The
\* analysis of an interaction is enqueued once, when the row is created, so
\* the queue never holds more follow-ups of one type for a customer than
\* the customer has interactions.
C38_OncePerJob ==
    \A c \in 1..MaxCustomers :
        \A followup_type \in {"test_drive_confirmation", "send_pricing"} :
            FollowupsOf(jobs, c, followup_type)
                <= Cardinality({n \in DOMAIN interactions :
                                   interactions[n].customer_id = c})

\* C38: one run of analyze_interaction_task publishes at most one
\* schedule_followup of each type, for the customer of its row and only for
\* an intent of the row's content; what earlier attempts of the job have
\* published does not count: a retried run that gets as far publishes the
\* follow-ups again.
C38_OncePerRun ==
    [][AnalyzeRun' =>
          LET n == last'.job.interaction_id
              intents == extract_key_intents(interactions[n].content)
              c == interactions[n].customer_id
              More(followup_type) ==
                  FollowupsOf(jobs', c, followup_type) - FollowupsOf(jobs, c, followup_type)
          IN  /\ Len(Followups(jobs')) - Len(Followups(jobs))
                    = More("test_drive_confirmation") + More("send_pricing")
              /\ More("test_drive_confirmation") \in {0, 1}
              /\ More("send_pricing") \in {0, 1}
              /\ More("test_drive_confirmation") = 1 => InList("test_drive", intents)
              /\ More("send_pricing") = 1 => InList("pricing", intents)
              /\ (last'.result = "SUCCESS" /\ AnalysisWrote') =>
                    /\ More("test_drive_confirmation") = 1
                          <=> InList("test_drive", intents)
                    /\ More("send_pricing") = 1 <=> InList("pricing", intents)]_vars

\* a retried run has published test_drive_confirmation while the one its
\* first attempt published is still queued: two for one interaction
C38_Witness ==
    /\ AnalysisWrote /\ last.result = "SUCCESS"
    /\ last.job.retries > 0
    /\ Len(interactions) = 1
    /\ FollowupsOf(jobs, interactions[1].customer_id, "test_drive_confirmation") = 2

\* the step just taken was a call-start for the id
StartOf(id) == CallStartDone /\ Req.call.id = id

\* C39: a marker is written with a TTL of 3600 seconds, its TTL is never
\* more than that and grows by nothing but a call-start for its id, which
\* sets it to 3600 again; so when from some time on no call-start for an id
\* arrives, its marker is absent from some time on, with or without a
\* call-end.
C39_MarkerExpires ==
    /\ [][\A id \in CallIds :
             /\ markers'[StartKey(id)] <= MARKER_TTL
             /\ markers'[StartKey(id)] > markers[StartKey(id)]
                   => /\ StartOf(id)'
                      /\ markers'[StartKey(id)] = MARKER_TTL]_vars
    /\ \A id \in CallIds : <>[](~StartOf(id)) => <>[](~Active(id))

\* the marker of a call whose call-end never came has run out
C39_Witness ==
    /\ last.op = "tick"
    /\ calls["c1"] = {"start"}
    /\ redis_client
    /\ ~Active("c1")

\* the step to the next state runs the body of score_lead_task for job
\* last'.job
ScoreStep == last'.op = "score_lead_task"

\* the step to the next state has committed a tier (new_status is the tier it
\* wrote, NULL when the run failed before its commit)
ScoreWrote == ScoreStep /\ last'.new_status # NULL

\* C40: tier domain of the pipeline.  Every tier a run of score_lead writes is
\* one of Hot Lead, Warm Lead, Cold Lead; a row whose score_lead has just
\* succeeded is not 'Prospect' afterwards, whatever the next step is; and a run
\* of score_lead that ends in RETRY or FAILURE leaves every customer row as it
\* was.
C40_TierDomain ==
    [][ /\ ScoreWrote => last'.new_status \in LeadTiers
        /\ (ScoreRun /\ last.result = "SUCCESS")
              => customers'[last.job.customer_id].customer_type # "Prospect"
        /\ (ScoreStep /\ last'.result \in {"RETRY", "FAILURE"})
              => customers' = customers ]_vars

\* C40 as it holds: a run of score_lead that commits writes the tier
\* score_lead_from_text gives, one of Hot Lead, Warm Lead, Cold Lead, to the
\* row of its job and to no other; a run that fails before its commit leaves
\* every row as it was (a run that fails after its commit, in db.refresh, has
\* written the same tier and is retried); a row is created as 'Prospect', and
\* a row that is not 'Prospect' becomes 'Prospect' only by a PUT of the
\* customers API that sets customer_type, never by a job.
C40_PipelineTiers ==
    [][ /\ ScoreWrote =>
              /\ last'.new_status = score_lead_from_text(last'.job.text)
              /\ last'.new_status \in LeadTiers
              /\ Len(customers') = Len(customers)
              /\ \A c \in DOMAIN customers :
                    customers'[c] =
                        IF customers[c].customer_id = last'.job.customer_id
                        THEN [customers[c] EXCEPT !.customer_type = last'.new_status]
                        ELSE customers[c]
        /\ (ScoreStep /\ last'.new_status = NULL)
              => /\ last'.result \in {"RETRY", "FAILURE"}
                 /\ customers' = customers
        /\ (ScoreStep /\ last'.result = "SUCCESS") => ScoreWrote
        /\ Len(customers') > Len(customers)
              => customers'[Len(customers')].customer_type = "Prospect"
        /\ \A c \in DOMAIN customers :
              (customers[c].customer_type # "Prospect"
                 /\ customers'[c].customer_type = "Prospect")
              => last'.op = "update_customer" ]_vars

\* a run of score_lead failed on the database before its commit, for a
\* customer whose tier an earlier run had written: the tier is still there
C40_Witness ==
    /\ ScoreRun
    /\ last.result \in {"RETRY", "FAILURE"}
    /\ last.dbFault
    /\ last.new_status = NULL
    /\ FindById(customers, last.job.customer_id) # 0
    /\ customers[FindById(customers, last.job.customer_id)].customer_type \in LeadTiers

====
